---------------------------- MODULE Spec2Model ----------------------------
(***************************************************************************)
(* A model of skill2earn-padi's decision logic:                            *)
(*   - the deterministic recommendation pipeline (lib/rulesEngine.ts),     *)
(*   - the Gemini re-ranking adapter with its deterministic fallback       *)
(*     (lib/recommendWithGemini.ts, lib/llmSchema.ts),                     *)
(*   - the provider-matching handler (app/api/providers/route.ts).         *)
(*                                                                         *)
(* Conventions.  A nullable value (number | null, T | undefined) is a      *)
(* sequence of length 0 or 1: << >> is null, <<v>> is the value v.  Skill  *)
(* codes are opaque identifiers, modelled as positive numbers; 0 stands    *)
(* for the empty string.  The psychometric sub-scores 0.2 .. 1.0 are kept  *)
(* in tenths (2 .. 10), so that 100 * (0.3 P + 0.3 M + 0.2 I + 0.2 Pa) is  *)
(* the integer 3 P + 3 M + 2 I + 2 Pa; the floating-point value differs    *)
(* from that integer by far less than 0.5, so Math.round yields it.        *)
(***************************************************************************)
EXTENDS Integers, Sequences, FiniteSets, TLC

VARIABLES
    user,          \* the AssessmentPayload of the request
    skills,        \* the skill catalog (SkillRow[]) read for the request
    pc,            \* position of the request: "input", "awaiting", "done"
    result,        \* the Recommendation[] returned
    llm,           \* the outcome of the language-model call, once it happened
    via,           \* the return statement the adapter left by
    calls,         \* the number of generateContent calls of the invocation
    req,           \* recommend route: the JSON body of the request
    handler,       \* recommend route: which POST of the route file serves it
    catalogRead,   \* recommend route: whether skills_v1 has been queried
    response,      \* recommend route: the response sent
    body,          \* provider lookup: the parsed request body
    isUnlocked,    \* provider lookup: result_unlocks.is_unlocked of the session
    dbOutcome,     \* provider lookup: how the two database reads ended
    status,        \* provider lookup: the HTTP status of the response
    rows,          \* provider lookup: the provider_skills rows read
    rowsAlt,       \* a second catalog, equal to rows except in hidden fields
    providers,     \* provider lookup: the "providers" array of the response
    providersAlt,  \* the "providers" array of the response for rowsAlt
    sessions,      \* the rows of table sessions, by session_id
    result_unlocks,\* the rows of table result_unlocks, by session_id
    lastCall,      \* the unlock-related request served last, and its outcome
    served         \* the number of such requests served

recVars == <<user, skills, pc, result, llm, via, calls>>
routeVars == <<req, handler, catalogRead, response>>
provVars == <<body, isUnlocked, dbOutcome, status, rows, rowsAlt, providers, providersAlt>>
unlockVars == <<sessions, result_unlocks, lastCall, served>>
vars == <<recVars, routeVars, provVars, unlockVars>>

(***************************************************************************)
(* Bounds of the model and constants of the program.                       *)
(***************************************************************************)
MaxSkills == 6
MaxSkillsAI == 3
MaxLLMItems == 2
MaxRows == 2
MaxSkillsStage1 == 2
MaxSkillsStage2 == 1
MaxSkillsAdvisory == 2
MaxSkillsShortlist == 2
MaxRequests == 3

TopN == 5
FallbackN == 3
ShortlistFallbackN == 25
ShortlistCap == 35
MaxProviders == 10
MinPhysicalPct == 10
UnboundedBudget == 999999999

Min(a, b) == IF a < b THEN a ELSE b
Max(a, b) == IF a > b THEN a ELSE b

SubSeqTo(s, n) == SubSeq(s, 1, Min(n, Len(s)))

\* Array.prototype.filter: the elements satisfying keep, in order.
RECURSIVE FilterIdx(_, _)
FilterIdx(flags, i) ==
    IF i > Len(flags) THEN << >>
    ELSE (IF flags[i] THEN <<i>> ELSE << >>) \o FilterIdx(flags, i + 1)

\* Array.prototype.sort with the comparator (a, b) => key(a) - key(b): the
\* sort is stable, so index i comes before j iff its key is smaller, or the
\* keys are equal and i < j.  The result is the sequence of indices in order.
StableOrder(keys) ==
    LET n == Len(keys)
        pos(i) == 1 + Cardinality({j \in 1..n :
                        keys[j] < keys[i] \/ (keys[j] = keys[i] /\ j < i)})
    IN  [p \in 1..n |-> CHOOSE i \in 1..n : pos(i) = p]

Pick(s, idx) == [k \in 1..Len(idx) |-> s[idx[k]]]

(***************************************************************************)
(* lib/rulesEngine.ts: helpers.                                            *)
(***************************************************************************)
budgetMaxFromBracket(b) ==
    CASE b = "below_50" -> 49999
      [] b = "50_100" -> 100000
      [] b = "100_200" -> 200000
      [] b = "200_400" -> 400000
      [] b = "above_400" -> UnboundedBudget

clamp01(x) == Max(0, Min(100, x))

\* The tag is lower-cased and searched for three substrings; a tag holding
\* none of them ranks 1.
prereqRank(x) ==
    IF x = "Basic_Smartphone" THEN 0
    ELSE IF x = "Basic_Computer" THEN 1
    ELSE IF x = "Advanced_PC" THEN 2
    ELSE 1

powerNeedRank(x) == IF x = "Low" THEN 1 ELSE IF x = "Medium" THEN 2 ELSE 3

internetNeedRank(x) ==
    IF x = "Zero" THEN 0 ELSE IF x = "Low" THEN 1 ELSE IF x = "Medium" THEN 2 ELSE 3

\* skill.has_keyword stands for keywords.some(k => cat.includes(k) ||
\* ind.includes(k)) over the category and industry texts of the skill.
isDigitalish(skill) ==
    \/ skill.prerequisite_proficiency \in {"Basic_Computer", "Advanced_PC"}
    \/ skill.has_keyword

scorePersonality(u, s) ==
    IF u = s THEN 10
    ELSE IF u = "Mix" \/ s = "Mix" THEN 7
    ELSE 2

scoreMentalModel(u, s) ==
    IF u = s THEN 10
    ELSE IF u = "Analytical" /\ s = "Structural" THEN 7
    ELSE IF u = "Adversarial" /\ s = "Structural" THEN 7
    ELSE IF u = "Adversarial" /\ s = "Analytical" THEN 4
    ELSE IF u = "Creative" /\ s \in {"Analytical", "Structural"} THEN 3
    ELSE 2

\* scoreInterest with the Protect/Solve pair taken in both directions.
scoreInterestBothWays(u, s) ==
    IF u = s THEN 10
    ELSE IF u = "Build" /\ s = "Solve" THEN 6
    ELSE IF u = "Solve" /\ s = "Build" THEN 6
    ELSE IF u = "Protect" /\ s = "Solve" THEN 5
    ELSE IF u = "Solve" /\ s = "Protect" THEN 5
    ELSE IF u = "Create" /\ s = "Connect" THEN 5
    ELSE IF u = "Connect" /\ s = "Create" THEN 5
    ELSE 2

scoreInterest(u, s) ==
    IF u = s THEN 10
    ELSE IF u = "Build" /\ s = "Solve" THEN 6
    ELSE IF u = "Solve" /\ s = "Build" THEN 6
    ELSE IF u = "Protect" /\ s = "Solve" THEN 5
    ELSE IF u = "Create" /\ s = "Connect" THEN 5
    ELSE IF u = "Connect" /\ s = "Create" THEN 5
    ELSE 2

scorePatience(u, s) ==
    IF u = s THEN 10
    ELSE IF (u = "Low" /\ s = "Moderate") \/ (u = "Moderate" /\ s = "Low") THEN 6
    ELSE IF (u = "High" /\ s = "Moderate") \/ (u = "Moderate" /\ s = "High") THEN 6
    ELSE 2

(***************************************************************************)
(* lib/rulesEngine.ts: runRecommendationPipeline, stage by stage.          *)
(***************************************************************************)
\* stage1Keep with the budget comparison <= in place of <: a skill costing
\* exactly the ceiling is rejected.
stage1KeepBelowCeiling(u, s) ==
    /\ ~ (/\ u.equipment_access \in {"none", "smartphone_only"}
          /\ prereqRank(s.prerequisite_proficiency) >= 1)
    /\ ~ (budgetMaxFromBracket(u.seed_capital) <= s.min_budget_naira)

\* Stage 1: the predicate of skills.filter (tool check, budget check).
stage1Keep(u, s) ==
    /\ ~ (/\ u.equipment_access \in {"none", "smartphone_only"}
          /\ prereqRank(s.prerequisite_proficiency) >= 1)
    /\ ~ (budgetMaxFromBracket(u.seed_capital) < s.min_budget_naira)

stage1Shortlist(u, sk) ==
    Pick(sk, FilterIdx([i \in 1..Len(sk) |-> stage1Keep(u, sk[i])], 1))

\* cheapest without its sort: the first n rows of the catalog.
cheapestUnsorted(sk, n) == SubSeqTo(sk, n)

\* The n cheapest skills: slice().sort(by min_budget_naira).slice(0, n).
cheapest(sk, n) ==
    SubSeqTo(Pick(sk, StableOrder([i \in 1..Len(sk) |-> sk[i].min_budget_naira])), n)

fallbackRecommendation(s) ==
    [skill_code |-> s.skill_code,
     skill_name |-> s.name,
     score |-> 1,
     reasons |-> <<"constraints_remove_most_options", "lowest_cost_option">>,
     badges |-> << >>,
     warnings |-> <<"most_skills_filtered_out">>]

\* Stage 2: the additive delta of one candidate.
utilityDelta(u, s) ==
    LET pRank == powerNeedRank(s.power_need)
        iRank == internetNeedRank(s.internet_need)
    IN  IF u.utility_reliability = "none"
        THEN (IF pRank >= 2 THEN -15 ELSE 0) + (IF iRank >= 2 THEN -15 ELSE 0)
        ELSE IF u.utility_reliability = "outages"
        THEN (IF pRank = 3 THEN -10 ELSE 0) + (IF iRank = 3 THEN -10 ELSE 0)
        ELSE 0

\* mobilityDelta without the penalty of a Remote user for an On-site skill.
mobilityDeltaNoPenalty(u, s) ==
    IF u.mobility = "Remote"
    THEN (IF s.work_location = "Remote" THEN 8
          ELSE IF s.work_location = "Hybrid" THEN 4 ELSE 0)
    ELSE IF u.mobility = "On-site"
    THEN (IF s.work_location = "On-site" THEN 6 ELSE 0)
    ELSE IF u.mobility = "Hybrid"
    THEN (IF s.work_location = "Hybrid" THEN 6 ELSE 0)
    ELSE 0

mobilityDelta(u, s) ==
    IF u.mobility = "Remote"
    THEN (IF s.work_location = "Remote" THEN 8
          ELSE IF s.work_location = "Hybrid" THEN 4 ELSE -10)
    ELSE IF u.mobility = "On-site"
    THEN (IF s.work_location = "On-site" THEN 6 ELSE 0)
    ELSE IF u.mobility = "Hybrid"
    THEN (IF s.work_location = "Hybrid" THEN 6 ELSE 0)
    ELSE 0

workspaceDelta(u, s) ==
    LET digital == isDigitalish(s)
    IN    (IF u.workspace_preference = "desk" /\ digital THEN 4 ELSE 0)
        + (IF u.workspace_preference = "hands_on" /\ ~digital THEN 4 ELSE 0)
        + (IF u.workspace_preference = "desk" /\ ~digital THEN -2 ELSE 0)
        + (IF u.workspace_preference = "hands_on" /\ digital THEN -2 ELSE 0)

stage2Delta(u, s) == utilityDelta(u, s) + mobilityDelta(u, s) + workspaceDelta(u, s)

\* stage2Keep with the top internet rank taken to be 4: nothing is removed.
stage2KeepWrongRank(u, s) ==
    \/ u.utility_reliability # "none"
    \/ ~ (powerNeedRank(s.power_need) = 3 /\ internetNeedRank(s.internet_need) = 4)

\* Stage 2: the predicate of the hard removal.
stage2Keep(u, s) ==
    \/ u.utility_reliability # "none"
    \/ ~ (powerNeedRank(s.power_need) = 3 /\ internetNeedRank(s.internet_need) = 3)

stage2List(u, cands) ==
    LET items == [i \in 1..Len(cands) |->
                    [skill |-> cands[i], stage2Delta |-> stage2Delta(u, cands[i])]]
    IN  Pick(items, FilterIdx([i \in 1..Len(items) |-> stage2Keep(u, items[i].skill)], 1))

\* Stage 3: the score and the reasons of one candidate.
baseScore(u, s) ==
    clamp01(  3 * scorePersonality(u.social_battery, s.personality)
            + 3 * scoreMentalModel(u.problem_instinct, s.mental_model)
            + 2 * scoreInterest(u.primary_interest, s.primary_goal)
            + 2 * scorePatience(u.patience_level, s.patience_level))

\* P, M, I, Pa and Math.round(clamp01(base) * 100) of one candidate.
subScores(u, s) ==
    [skill_code |-> s.skill_code,
     P |-> scorePersonality(u.social_battery, s.personality),
     M |-> scoreMentalModel(u.problem_instinct, s.mental_model),
     I |-> scoreInterest(u.primary_interest, s.primary_goal),
     Pa |-> scorePatience(u.patience_level, s.patience_level),
     base |-> baseScore(u, s)]

\* finalScore without the lower clamp.
finalScoreNoFloor(base, delta) == Min(100, base + delta)

\* Math.max(0, Math.min(100, score + stage2Delta))
finalScore(base, delta) == Max(0, Min(100, base + delta))

\* stage3Reasons with the personality sentence given from 0.7 upwards.
stage3ReasonsFromPartial(u, s) ==
       (IF scorePersonality(u.social_battery, s.personality) >= 7
        THEN <<"matches_social_style">> ELSE << >>)
    \o (IF scoreMentalModel(u.problem_instinct, s.mental_model) >= 9
        THEN <<"matches_problem_solving">> ELSE << >>)
    \o (IF scoreInterest(u.primary_interest, s.primary_goal) >= 9
        THEN <<"matches_interest">> ELSE << >>)
    \o (IF scorePatience(u.patience_level, s.patience_level) >= 9
        THEN <<"matches_patience">> ELSE << >>)
    \o <<"fits_seed_capital">>
    \o (IF u.utility_reliability # "stable"
        THEN <<"utility_considered">> ELSE << >>)

\* The reasons of one candidate, each sentence by a name of its own.
stage3Reasons(u, s) ==
       (IF scorePersonality(u.social_battery, s.personality) >= 9
        THEN <<"matches_social_style">> ELSE << >>)
    \o (IF scoreMentalModel(u.problem_instinct, s.mental_model) >= 9
        THEN <<"matches_problem_solving">> ELSE << >>)
    \o (IF scoreInterest(u.primary_interest, s.primary_goal) >= 9
        THEN <<"matches_interest">> ELSE << >>)
    \o (IF scorePatience(u.patience_level, s.patience_level) >= 9
        THEN <<"matches_patience">> ELSE << >>)
    \o <<"fits_seed_capital">>
    \o (IF u.utility_reliability # "stable"
        THEN <<"utility_considered">> ELSE << >>)

\* scored without the sort: the candidates stay in catalog order.
scoredUnsorted(u, st2) ==
    [i \in 1..Len(st2) |->
        [skill |-> st2[i].skill,
         score |-> finalScore(baseScore(u, st2[i].skill), st2[i].stage2Delta),
         reasons |-> stage3Reasons(u, st2[i].skill)]]

\* Stage 3: the map over stage2List and scored.sort((a, b) => b.score -
\* a.score), a stable sort.
scored(u, st2) ==
    LET items == [i \in 1..Len(st2) |->
                    [skill |-> st2[i].skill,
                     score |-> finalScore(baseScore(u, st2[i].skill), st2[i].stage2Delta),
                     reasons |-> stage3Reasons(u, st2[i].skill)]]
    IN  Pick(items, StableOrder([i \in 1..Len(items) |-> 0 - items[i].score]))

\* Stage 4: badges and warnings of one of the top candidates.
earnsLate(s) == s.time_to_earn_months # << >> /\ s.time_to_earn_months[1] > 3

stage4(u, x) ==
    [skill_code |-> x.skill.skill_code,
     skill_name |-> x.skill.name,
     score |-> x.score,
     reasons |-> x.reasons,
     badges |->
        IF /\ u.equipment_access = "laptop_pc"
           /\ u.computer_proficiency # << >>
           /\ u.computer_proficiency[1] <= 2
           /\ isDigitalish(x.skill)
        THEN <<"computer_fundamentals_first">> ELSE << >>,
     warnings |->
        IF u.income_urgency = "quick" /\ earnsLate(x.skill)
        THEN <<"longer_than_3_months">> ELSE << >>]

\* backupSuggestion with unshift for push: the suggestion comes first.
backupSuggestionFirst(u, sc, out) ==
    IF u.income_urgency = "quick" /\ Len(out) >= 2
    THEN LET found == FilterIdx([i \in 1..Len(sc) |->
                            sc[i].skill.skill_code = out[1].skill_code], 1)
             top == sc[found[1]].skill
         IN  IF /\ top.time_to_earn_months # << >>
                /\ top.time_to_earn_months[1] # 0
                /\ top.time_to_earn_months[1] > 3
             THEN [out EXCEPT ![1].warnings =
                      <<"consider_also: " \o out[2].skill_name>> \o @]
             ELSE out
    ELSE out

\* The backup suggestion pushed onto out[0].warnings.  The top skill is found
\* again by its code (scored.find), and 0 months is falsy.
backupSuggestion(u, sc, out) ==
    IF u.income_urgency = "quick" /\ Len(out) >= 2
    THEN LET found == FilterIdx([i \in 1..Len(sc) |->
                            sc[i].skill.skill_code = out[1].skill_code], 1)
             top == sc[found[1]].skill
         IN  IF /\ top.time_to_earn_months # << >>
                /\ top.time_to_earn_months[1] # 0
                /\ top.time_to_earn_months[1] > 3
             THEN [out EXCEPT ![1].warnings =
                      Append(@, "consider_also: " \o out[2].skill_name)]
             ELSE out
    ELSE out

\* topScored without its cut: every scored candidate is returned.
topScoredAll(sc) == sc

\* scored.slice(0, 5)
topScored(sc) == SubSeqTo(sc, TopN)

pipelineFallback(sk) ==
    LET c == cheapest(sk, FallbackN)
    IN  [i \in 1..Len(c) |-> fallbackRecommendation(c[i])]

runRecommendationPipeline(u, sk) ==
    LET st1 == stage1Shortlist(u, sk)
    IN  IF Len(st1) = 0
        THEN pipelineFallback(sk)
        ELSE LET sc == scored(u, stage2List(u, st1))
                 top == topScored(sc)
                 out == [i \in 1..Len(top) |-> stage4(u, top[i])]
             IN  backupSuggestion(u, sc, out)

(***************************************************************************)
(* lib/recommendWithGemini.ts: its own copies of the helpers, and the      *)
(* shortlist handed to the language model.                                 *)
(***************************************************************************)
budgetMaxFromBracketG(b) ==
    CASE b = "below_50" -> 49999
      [] b = "50_100" -> 100000
      [] b = "100_200" -> 200000
      [] b = "200_400" -> 400000
      [] b = "above_400" -> UnboundedBudget

\* prereqRankG with an unrecognized tag ranked 0.
prereqRankGLenient(x) ==
    IF x = "Basic_Smartphone" THEN 0
    ELSE IF x = "Basic_Computer" THEN 1
    ELSE IF x = "Advanced_PC" THEN 2
    ELSE 0

prereqRankG(x) ==
    IF x = "Basic_Smartphone" THEN 0
    ELSE IF x = "Basic_Computer" THEN 1
    ELSE IF x = "Advanced_PC" THEN 2
    ELSE 1

powerNeedRankG(x) == IF x = "Low" THEN 1 ELSE IF x = "Medium" THEN 2 ELSE 3

internetNeedRankG(x) ==
    IF x = "Zero" THEN 0 ELSE IF x = "Low" THEN 1 ELSE IF x = "Medium" THEN 2 ELSE 3

isDigitalishG(skill) ==
    \/ skill.prerequisite_proficiency \in {"Basic_Computer", "Advanced_PC"}
    \/ skill.has_keyword

stage1KeepG(u, s) ==
    /\ ~ (/\ u.equipment_access \in {"none", "smartphone_only"}
          /\ prereqRankG(s.prerequisite_proficiency) >= 1)
    /\ ~ (budgetMaxFromBracketG(u.seed_capital) < s.min_budget_naira)

\* stage1, or the 25 cheapest skills when stage1 is empty.
stage1ShortlistG(u, sk) ==
    LET stage1 == Pick(sk, FilterIdx([i \in 1..Len(sk) |-> stage1KeepG(u, sk[i])], 1))
    IN  IF Len(stage1) > 0
        THEN stage1
        ELSE SubSeqTo(Pick(sk, StableOrder([i \in 1..Len(sk) |->
                                    sk[i].min_budget_naira])), ShortlistFallbackN)

stage2DeltaG(u, s) ==
    LET pRank == powerNeedRankG(s.power_need)
        iRank == internetNeedRankG(s.internet_need)
        digital == isDigitalishG(s)
    IN    (IF u.utility_reliability = "none"
           THEN (IF pRank >= 2 THEN -15 ELSE 0) + (IF iRank >= 2 THEN -15 ELSE 0)
           ELSE IF u.utility_reliability = "outages"
           THEN (IF pRank = 3 THEN -10 ELSE 0) + (IF iRank = 3 THEN -10 ELSE 0)
           ELSE 0)
        + (IF u.mobility = "Remote"
           THEN (IF s.work_location = "Remote" THEN 8
                 ELSE IF s.work_location = "Hybrid" THEN 4 ELSE -10)
           ELSE IF u.mobility = "On-site"
           THEN (IF s.work_location = "On-site" THEN 6 ELSE 0)
           ELSE IF u.mobility = "Hybrid"
           THEN (IF s.work_location = "Hybrid" THEN 6 ELSE 0)
           ELSE 0)
        + (IF u.workspace_preference = "desk" /\ digital THEN 4 ELSE 0)
        + (IF u.workspace_preference = "hands_on" /\ ~digital THEN 4 ELSE 0)
        + (IF u.workspace_preference = "desk" /\ ~digital THEN -2 ELSE 0)
        + (IF u.workspace_preference = "hands_on" /\ digital THEN -2 ELSE 0)

stage2KeepG(u, s) ==
    \/ u.utility_reliability # "none"
    \/ ~ (powerNeedRankG(s.power_need) = 3 /\ internetNeedRankG(s.internet_need) = 3)

stage2G(u, sk) ==
    LET cands == stage1ShortlistG(u, sk)
        items == [i \in 1..Len(cands) |->
                    [skill |-> cands[i], stage2Delta |-> stage2DeltaG(u, cands[i])]]
    IN  Pick(items, FilterIdx([i \in 1..Len(items) |-> stage2KeepG(u, items[i].skill)], 1))

\* shortlistWithDeltas without the sort: the first 35 stage-2 survivors.
shortlistWithDeltasUnsorted(u, sk) ==
    LET stage2 == stage2G(u, sk)
        cut == SubSeqTo(stage2, ShortlistCap)
    IN  [shortlistSkills |-> [i \in 1..Len(cut) |-> cut[i].skill],
         stage2Deltas |-> [c \in {stage2[i].skill.skill_code : i \in 1..Len(stage2)} |->
                             LET last == CHOOSE i \in 1..Len(stage2) :
                                    /\ stage2[i].skill.skill_code = c
                                    /\ \A j \in (i + 1)..Len(stage2) :
                                          stage2[j].skill.skill_code # c
                             IN  stage2[last].stage2Delta]]

\* shortlistWithDeltas: the skills sorted by delta, highest first, cut to 35,
\* and the delta of every stage-2 survivor by skill code.
shortlistWithDeltas(u, sk) ==
    LET stage2 == stage2G(u, sk)
        sorted == Pick(stage2, StableOrder([i \in 1..Len(stage2) |->
                                    0 - stage2[i].stage2Delta]))
        cut == SubSeqTo(sorted, ShortlistCap)
    IN  [shortlistSkills |-> [i \in 1..Len(cut) |-> cut[i].skill],
         stage2Deltas |-> [c \in {stage2[i].skill.skill_code : i \in 1..Len(stage2)} |->
                             LET last == CHOOSE i \in 1..Len(stage2) :
                                    /\ stage2[i].skill.skill_code = c
                                    /\ \A j \in (i + 1)..Len(stage2) :
                                          stage2[j].skill.skill_code # c
                             IN  stage2[last].stage2Delta]]

(***************************************************************************)
(* lib/llmSchema.ts: LLMRecommendationResponseSchema.  A response of the   *)
(* model is [kind, recs, meta]: kind "throw" (generateContent or the       *)
(* client factory throws), "empty_text" (resp.text undefined or ""),       *)
(* "not_json" (JSON.parse throws), "json_other" (JSON that is no object),  *)
(* "json" (an object whose recommendations are recs, with a well-formed    *)
(* meta object iff meta).  The score of an item is score + score_frac/10:  *)
(* score_frac is 0 exactly when the number is an integer.                  *)
(***************************************************************************)
\* itemSchemaOk without the constraints on score.
itemSchemaOkAnyScore(r) ==
    /\ r.skill_code # 0
    /\ Len(r.reasons) >= 3 /\ Len(r.reasons) <= 6
    /\ \A k \in 1..Len(r.reasons) : r.reasons[k] # ""
    /\ Len(r.badges) <= 5
    /\ Len(r.warnings) <= 5

\* The object schema of one element of recommendations.
itemSchemaOk(r) ==
    /\ r.skill_code # 0
    /\ r.score_frac = 0 /\ r.score \in 0..100
    /\ Len(r.reasons) >= 3 /\ Len(r.reasons) <= 6
    /\ \A k \in 1..Len(r.reasons) : r.reasons[k] # ""
    /\ Len(r.badges) <= 5
    /\ Len(r.warnings) <= 5

LLMRecommendationResponseSchema(resp) ==
    /\ resp.kind = "json"
    /\ Len(resp.recs) >= 1 /\ Len(resp.recs) <= 5
    /\ \A i \in 1..Len(resp.recs) : itemSchemaOk(resp.recs[i])
    /\ resp.meta

(***************************************************************************)
(* lib/recommendWithGemini.ts: recommendWithGeminiOrFallback.              *)
(***************************************************************************)
allowed(shortlistSkills) ==
    {shortlistSkills[i].skill_code : i \in 1..Len(shortlistSkills)}

\* byCode.get(code)?.name ?? code: a Map built from pairs keeps the last
\* entry of a key.
nameByCode(shortlistSkills, code) ==
    IF code \in allowed(shortlistSkills)
    THEN LET last == CHOOSE i \in 1..Len(shortlistSkills) :
                        /\ shortlistSkills[i].skill_code = code
                        /\ \A j \in (i + 1)..Len(shortlistSkills) :
                              shortlistSkills[j].skill_code # code
         IN  shortlistSkills[last].name
    ELSE ToString(code)

\* allowedItem without the membership test: every validated item is kept.
allowedItemAny(shortlistSkills, r) == TRUE

\* The predicate of validated.recommendations.filter.
allowedItem(shortlistSkills, r) == r.skill_code \in allowed(shortlistSkills)

\* validated.recommendations.filter(...).map(...).slice(0, 5)
modelOut(shortlistSkills, recs) ==
    LET kept == Pick(recs, FilterIdx([i \in 1..Len(recs) |->
                                        allowedItem(shortlistSkills, recs[i])], 1))
    IN  SubSeqTo([i \in 1..Len(kept) |->
                    [skill_code |-> kept[i].skill_code,
                     skill_name |-> nameByCode(shortlistSkills, kept[i].skill_code),
                     score |-> kept[i].score,
                     reasons |-> kept[i].reasons,
                     badges |-> kept[i].badges,
                     warnings |-> kept[i].warnings]], TopN)

\* fallbackCatalog taken to be the shortlist instead of the full catalog.
fallbackCatalogShortlist(sk, shortlistSkills) == shortlistSkills

\* The catalog the deterministic fallback runs on.
fallbackCatalog(sk, shortlistSkills) == sk

\* emptyOutResult without the length check: the empty list is returned.
emptyOutReturned(u, sk, shortlistSkills) == << >>

\* What the adapter returns when the model's items are all filtered out.
emptyOutResult(u, sk, shortlistSkills) ==
    runRecommendationPipeline(u, fallbackCatalog(sk, shortlistSkills))

\* The part of recommendWithGeminiOrFallback after the await: the return
\* statement taken and the value returned.
afterAwait(u, sk, resp) ==
    LET shortlistSkills == shortlistWithDeltas(u, sk).shortlistSkills
    IN  IF resp.kind = "json" /\ LLMRecommendationResponseSchema(resp)
        THEN LET out == modelOut(shortlistSkills, resp.recs)
             IN  IF Len(out) = 0
                 THEN [via |-> "no_valid_items",
                       value |-> emptyOutResult(u, sk, shortlistSkills)]
                 ELSE [via |-> "model", value |-> out]
        ELSE [via |-> "catch",
              value |-> runRecommendationPipeline(u, fallbackCatalog(sk, shortlistSkills))]

\* afterSettle with a retry: a failed call takes the adapter back to the
\* call.
afterSettleRetry(v) == IF v = "catch" THEN "input" ELSE "done"

\* Where the adapter stands once the call has settled and the statements
\* after the await have run: the try block and the catch block both end in
\* a return.
afterSettle(v) == "done"

(***************************************************************************)
(* app/api/providers/route.ts: POST.  A row is a provider_skills row with  *)
(* its joined provider (row.providers, nullable).                          *)
(***************************************************************************)
\* physicalPct with || for ??: a row value of 0 gives way to the provider's.
physicalPctFalsy(row, p) ==
    IF row.physical_delivery_percent # << >> /\ row.physical_delivery_percent[1] # 0
    THEN row.physical_delivery_percent[1]
    ELSE IF p.physical_delivery_percent # << >> THEN p.physical_delivery_percent[1]
    ELSE 0

\* a ?? b ?? 0 over nullable numbers.
physicalPct(row, p) ==
    IF row.physical_delivery_percent # << >> THEN row.physical_delivery_percent[1]
    ELSE IF p.physical_delivery_percent # << >> THEN p.physical_delivery_percent[1]
    ELSE 0

\* localityRank with the state left out of the first two comparisons.
localityRankAnyState(p, b) ==
    IF p.city = b.city /\ b.area # "" /\ p.area = <<b.area>> THEN 1
    ELSE IF p.city = b.city THEN 2
    ELSE IF p.state = b.state THEN 3
    ELSE 99

\* rank: area > city > state; body.area is falsy when absent or empty.
localityRank(p, b) ==
    IF /\ p.state = b.state /\ p.city = b.city
       /\ b.area # "" /\ p.area = <<b.area>>
    THEN 1
    ELSE IF p.state = b.state /\ p.city = b.city THEN 2
    ELSE IF p.state = b.state THEN 3
    ELSE 99

\* rows.map(...).filter(x => x !== null): the rows that have a provider.
withProvider(rws, b) ==
    LET kept == Pick(rws, FilterIdx([i \in 1..Len(rws) |-> rws[i].providers # << >>], 1))
    IN  [i \in 1..Len(kept) |->
            [row |-> kept[i],
             p |-> kept[i].providers[1],
             physicalPct |-> physicalPct(kept[i], kept[i].providers[1]),
             rank |-> localityRank(kept[i].providers[1], b)]]

\* .filter(x => x.physicalPct >= 10)
clearsThreshold(x) == x.physicalPct >= MinPhysicalPct

\* cutToMax off by one: slice(0, 11).
cutToMaxPlusOne(s) == SubSeqTo(s, MaxProviders + 1)

\* .slice(0, 10)
cutToMax(s) == SubSeqTo(s, MaxProviders)

\* mapped: map, both filters, sort by rank, slice.
mapped(rws, b) ==
    LET items == withProvider(rws, b)
        passing == Pick(items, FilterIdx([i \in 1..Len(items) |->
                                            clearsThreshold(items[i])], 1))
    IN  cutToMax(Pick(passing, StableOrder([i \in 1..Len(passing) |-> passing[i].rank])))

\* One step of the reduce: acc is the Map as the sequence of its values in
\* insertion order; set() on a present key replaces the value in place.
dedupeStep(acc, item) ==
    LET at == {k \in 1..Len(acc) : acc[k].p.id = item.p.id}
    IN  IF at = {} THEN Append(acc, item)
        ELSE LET k == CHOOSE k \in at : TRUE
             IN  IF item.rank < acc[k].rank THEN [acc EXCEPT ![k] = item] ELSE acc

RECURSIVE reduceFrom(_, _, _)
reduceFrom(items, i, acc) ==
    IF i > Len(items) THEN acc
    ELSE reduceFrom(items, i + 1, dedupeStep(acc, items[i]))

\* uniqueMapped without the reduce: every mapped row is returned.
uniqueMappedAll(items) == items

\* uniqueMapped: Array.from(mapped.reduce(..., new Map()).values())
uniqueMapped(items) == reduceFrom(items, 1, << >>)

\* lockedProjection with the contact fields present and null-filled.
lockedProjectionNullFilled(x) ==
    [provider_id |-> x.p.id, name |-> x.p.name, provider_type |-> x.p.provider_type,
     phone |-> << >>, whatsapp |-> << >>, address |-> << >>,
     state |-> x.p.state, city |-> x.p.city, area |-> x.p.area,
     mode_supported |-> IF x.row.mode_supported # << >>
                        THEN x.row.mode_supported ELSE x.p.mode_supported,
     physical_delivery_percent |-> x.physicalPct,
     course_fee_min_ngn |-> x.row.course_fee_min_ngn,
     course_fee_max_ngn |-> x.row.course_fee_max_ngn,
     duration_weeks |-> x.row.duration_weeks,
     rank |-> x.rank]

\* lockedProjection with a "has contact" marker derived from the phone.
lockedProjectionContactFlag(x) ==
    [provider_id |-> x.p.id, name |-> x.p.name, provider_type |-> x.p.provider_type,
     has_contact |-> x.p.phone # << >>,
     state |-> x.p.state, city |-> x.p.city, area |-> x.p.area,
     mode_supported |-> IF x.row.mode_supported # << >>
                        THEN x.row.mode_supported ELSE x.p.mode_supported,
     physical_delivery_percent |-> x.physicalPct,
     course_fee_min_ngn |-> x.row.course_fee_min_ngn,
     course_fee_max_ngn |-> x.row.course_fee_max_ngn,
     duration_weeks |-> x.row.duration_weeks,
     rank |-> x.rank]

lockedProjection(x) ==
    [provider_id |-> x.p.id,
     name |-> x.p.name,
     provider_type |-> x.p.provider_type,
     state |-> x.p.state,
     city |-> x.p.city,
     area |-> x.p.area,
     mode_supported |-> IF x.row.mode_supported # << >>
                        THEN x.row.mode_supported ELSE x.p.mode_supported,
     physical_delivery_percent |-> x.physicalPct,
     course_fee_min_ngn |-> x.row.course_fee_min_ngn,
     course_fee_max_ngn |-> x.row.course_fee_max_ngn,
     duration_weeks |-> x.row.duration_weeks,
     rank |-> x.rank]

unlockedProjection(x) ==
    [provider_id |-> x.p.id,
     name |-> x.p.name,
     provider_type |-> x.p.provider_type,
     phone |-> x.p.phone,
     whatsapp |-> x.p.whatsapp,
     state |-> x.p.state,
     city |-> x.p.city,
     area |-> x.p.area,
     address |-> x.p.address,
     mode_supported |-> IF x.row.mode_supported # << >>
                        THEN x.row.mode_supported ELSE x.p.mode_supported,
     physical_delivery_percent |-> x.physicalPct,
     course_fee_min_ngn |-> x.row.course_fee_min_ngn,
     course_fee_max_ngn |-> x.row.course_fee_max_ngn,
     duration_weeks |-> x.row.duration_weeks,
     capabilities |-> [has_power_backup |-> x.p.has_power_backup,
                       has_training_laptops |-> x.p.has_training_laptops,
                       has_internet |-> x.p.has_internet],
     rank |-> x.rank]

\* The "providers" array of the 200 response.
matchProviders(rws, b, unlocked) ==
    LET u == uniqueMapped(mapped(rws, b))
    IN  IF ~unlocked
        THEN [i \in 1..Len(u) |-> lockedProjection(u[i])]
        ELSE [i \in 1..Len(u) |-> unlockedProjection(u[i])]

(***************************************************************************)
(* app/api/recommend/route.ts.  The file holds two POST handlers: the      *)
(* first ("rules") validates with a schema that takes a proficiency of     *)
(* 1..5 and always scores with the rules engine; the second ("ai") takes   *)
(* 1..10, halves it, and scores through the Gemini adapter when            *)
(* USE_AI_RECOMMENDER is set.  A request is [equipment_access,             *)
(* computer_proficiency, mode, phone], its other fields being well-formed. *)
(***************************************************************************)
\* z.number().int().min(1).max(5).optional() of the first Schema.
proficiencyIssueStrict(v) == v # << >> /\ v[1] \notin 1..5

\* z.coerce.number().int().min(1).max(10).optional() of the second Schema.
proficiencyIssueCoerce(v) == v # << >> /\ v[1] \notin 1..10

\* Math.round(v / 2) clamped to 1..5; Math.round takes a half upwards.
normalizeProficiencyTo5(v) ==
    IF v = << >> THEN << >> ELSE <<Max(1, Min(5, (v[1] + 1) \div 2))>>

\* missingProficiency without the check: no request is turned away.
missingProficiencyIgnored(eq, prof) == FALSE

\* The conditional validation of both handlers.
missingProficiency(eq, prof) == eq = "laptop_pc" /\ prof = << >>

Rejected(st, field) == [ok |-> FALSE, status |-> st, names |-> {field}]
Accepted == [ok |-> TRUE, status |-> 0, names |-> {}]

\* The first handler up to its first await.  A ZodError reaches the catch
\* and is answered 500 with the error's message, the list of its issues.
validateRules(r) ==
    IF proficiencyIssueStrict(r.computer_proficiency)
    THEN Rejected(500, "computer_proficiency")
    ELSE IF missingProficiency(r.equipment_access, r.computer_proficiency)
    THEN Rejected(400, "computer_proficiency")
    ELSE Accepted

\* The second handler up to its first await.  A ZodError is answered 400
\* with its issues; the phone, when given, must hold 10 to 15 digits.
validateAI(r) ==
    IF proficiencyIssueCoerce(r.computer_proficiency)
    THEN Rejected(400, "computer_proficiency")
    ELSE IF missingProficiency(r.equipment_access,
                               normalizeProficiencyTo5(r.computer_proficiency))
    THEN Rejected(400, "computer_proficiency")
    ELSE IF r.phone = "invalid"
    THEN Rejected(400, "phone")
    ELSE Accepted

validate(h, r) == IF h = "rules" THEN validateRules(r) ELSE validateAI(r)

\* recommendations.slice(0, 3).map(...): the preview of a result.
previewOf(recs) ==
    LET top == SubSeqTo(recs, 3)
    IN  [i \in 1..Len(top) |->
            [skill_code |-> top[i].skill_code,
             skill_name |-> top[i].skill_name,
             score |-> top[i].score,
             teaser |-> SubSeqTo(top[i].reasons, 2)]]

\* The mode of the response: the first handler serves "full" to unlocked
\* sessions only, the second honours the requested mode.
modeOf(h, r, unlocked) ==
    LET requestedMode == IF r.mode = << >> THEN "preview" ELSE r.mode[1]
    IN  IF h = "rules"
        THEN (IF unlocked /\ requestedMode = "full" THEN "full" ELSE "preview")
        ELSE requestedMode

\* recommendWithGeminiOrFallback as a function of the model's outcome.
recommendWithGeminiOrFallback(u, sk, resp) ==
    IF Len(shortlistWithDeltas(u, sk).shortlistSkills) = 0
    THEN runRecommendationPipeline(u, sk)
    ELSE afterAwait(u, sk, resp).value

(***************************************************************************)
(* Inputs: the profiles and the catalog entries the model draws from.      *)
(***************************************************************************)
Persona(kind) ==
    IF kind = "maker"
    THEN [workspace_preference |-> "hands_on", social_battery |-> "Introvert",
          mobility |-> "Remote", problem_instinct |-> "Creative",
          patience_level |-> "Low", income_urgency |-> "quick",
          primary_interest |-> "Build"]
    ELSE [workspace_preference |-> "desk", social_battery |-> "Extrovert",
          mobility |-> "On-site", problem_instinct |-> "Analytical",
          patience_level |-> "High", income_urgency |-> "long",
          primary_interest |-> "Solve"]

MkUser(eq, seed, util, kind) ==
    LET p == Persona(kind)
    IN  [equipment_access |-> eq,
         computer_proficiency |-> IF eq = "laptop_pc" THEN <<2>> ELSE << >>,
         seed_capital |-> seed,
         utility_reliability |-> util,
         workspace_preference |-> p.workspace_preference,
         social_battery |-> p.social_battery,
         mobility |-> p.mobility,
         problem_instinct |-> p.problem_instinct,
         patience_level |-> p.patience_level,
         income_urgency |-> p.income_urgency,
         primary_interest |-> p.primary_interest]

Users ==
    {MkUser(eq, seed, util, kind) :
        eq \in {"smartphone_only", "laptop_pc"},
        seed \in {"below_50", "above_400"},
        util \in {"none", "outages", "stable"},
        kind \in {"maker", "analyst"}}

UsersAI ==
    {MkUser(eq, "above_400", util, "maker") :
        eq \in {"smartphone_only", "laptop_pc"},
        util \in {"none", "stable"}}

\* Catalog entries; the skill_code is given when the entry joins a catalog.
SkillMenu ==
    {[skill_code |-> 0, name |-> "Tailoring",
      min_budget_naira |-> 10000,
      power_need |-> "Low", internet_need |-> "Zero",
      personality |-> "Introvert", prerequisite_proficiency |-> "Basic_Smartphone",
      primary_goal |-> "Build", mental_model |-> "Creative",
      patience_level |-> "Low", time_to_earn_months |-> <<2>>,
      work_location |-> "Remote", has_keyword |-> FALSE],
     [skill_code |-> 0, name |-> "Data Analysis",
      min_budget_naira |-> 60000,
      power_need |-> "High", internet_need |-> "High",
      personality |-> "Extrovert", prerequisite_proficiency |-> "Advanced_PC",
      primary_goal |-> "Solve", mental_model |-> "Analytical",
      patience_level |-> "High", time_to_earn_months |-> <<6>>,
      work_location |-> "On-site", has_keyword |-> TRUE],
     [skill_code |-> 0, name |-> "Welding",
      min_budget_naira |-> 500000,
      power_need |-> "Medium", internet_need |-> "Medium",
      personality |-> "Mix", prerequisite_proficiency |-> "Apprenticeship",
      primary_goal |-> "Protect", mental_model |-> "Structural",
      patience_level |-> "Moderate", time_to_earn_months |-> << >>,
      work_location |-> "Hybrid", has_keyword |-> FALSE]}

\* Items a model response is made of: two well-formed items for the first
\* two catalog codes, a well-formed item for a code of no catalog, an item
\* with a score out of range, an item with too few reasons.
LLMItemMenu ==
    {[skill_code |-> 1, score |-> 80, score_frac |-> 0,
      reasons |-> <<"r1", "r2", "r3">>,
      badges |-> << >>, warnings |-> <<"w1">>],
     [skill_code |-> 2, score |-> 100, score_frac |-> 0,
      reasons |-> <<"r1", "r2", "r3", "r4", "r5", "r6">>,
      badges |-> <<"b1">>, warnings |-> << >>],
     [skill_code |-> 99, score |-> 50, score_frac |-> 0,
      reasons |-> <<"r1", "r2", "r3">>,
      badges |-> << >>, warnings |-> << >>],
     [skill_code |-> 1, score |-> 101, score_frac |-> 0,
      reasons |-> <<"r1", "r2", "r3">>,
      badges |-> << >>, warnings |-> << >>],
     [skill_code |-> 2, score |-> 50, score_frac |-> 0,
      reasons |-> <<"r1", "r2">>,
      badges |-> << >>, warnings |-> << >>]}

\* A well-formed item for the first catalog code, and the items that differ
\* from it in one field: each array one past its maximum and at its
\* maximum, a score below the range, at its lower end, and not an integer.
BaseItem ==
    [skill_code |-> 1, score |-> 70, score_frac |-> 0,
     reasons |-> <<"r1", "r2", "r3">>, badges |-> << >>, warnings |-> << >>]

Strs(n) == [k \in 1..n |-> "s"]

LLMBoundaryItems ==
    {[BaseItem EXCEPT !.reasons = Strs(n)] : n \in {6, 7}}
    \cup {[BaseItem EXCEPT !.badges = Strs(n)] : n \in {5, 6}}
    \cup {[BaseItem EXCEPT !.warnings = Strs(n)] : n \in {5, 6}}
    \cup {[BaseItem EXCEPT !.score = n] : n \in {-1, 0}}
    \cup {[BaseItem EXCEPT !.score_frac = 5]}

\* Responses of five and of six well-formed items.
LLMLongResponses ==
    {[k \in 1..n |-> BaseItem] : n \in {5, 6}}

\* The five seed-capital brackets, lowest first.
Brackets == <<"below_50", "50_100", "100_200", "200_400", "above_400">>

\* Profiles for the stage-1 filter: every equipment tier and bracket.
UsersStage1 ==
    {MkUser(eq, Brackets[b], "stable", "maker") :
        eq \in {"none", "smartphone_only", "laptop_pc"}, b \in 1..5}

\* Catalog entries for the stage-1 filter: every prerequisite tag (one of
\* them unrecognized) with budgets at, between and above the ceilings.
SkillMenuStage1 ==
    {[skill_code |-> 0, name |-> "Skill",
      min_budget_naira |-> m,
      power_need |-> "Low", internet_need |-> "Zero",
      personality |-> "Introvert", prerequisite_proficiency |-> p,
      primary_goal |-> "Build", mental_model |-> "Creative",
      patience_level |-> "Low", time_to_earn_months |-> <<2>>,
      work_location |-> "Remote", has_keyword |-> FALSE] :
        p \in {"Basic_Smartphone", "Basic_Computer", "Advanced_PC", "Apprenticeship"},
        m \in {49999, 60000, 100001, 400000, 400001}}

\* Profiles for stage 2: every utility reliability, mobility and workspace
\* preference, with tools and budget that pass every skill at stage 1.
UsersStage2 ==
    {[MkUser("laptop_pc", "above_400", util, "maker") EXCEPT
        !.mobility = m, !.workspace_preference = w] :
        util \in {"none", "outages", "stable"},
        m \in {"Remote", "On-site", "Hybrid"},
        w \in {"hands_on", "desk", "mix"}}

\* Catalog entries for stage 2: every power need, internet need and work
\* location, non-digital, digital by a keyword and digital by prerequisite.
SkillMenuStage2 ==
    {[skill_code |-> 0, name |-> "Skill",
      min_budget_naira |-> 20000,
      power_need |-> pw, internet_need |-> nt,
      personality |-> "Introvert", prerequisite_proficiency |-> d[1],
      primary_goal |-> "Build", mental_model |-> "Creative",
      patience_level |-> "Low", time_to_earn_months |-> <<2>>,
      work_location |-> loc, has_keyword |-> d[2]] :
        pw \in {"Low", "Medium", "High"},
        nt \in {"Zero", "Low", "Medium", "High"},
        loc \in {"Remote", "On-site", "Hybrid"},
        d \in {<<"Basic_Smartphone", FALSE>>, <<"Basic_Smartphone", TRUE>>,
               <<"Advanced_PC", FALSE>>}}

\* Profiles and catalog entries for stage 3: every answer and every tag the
\* four sub-scores read.
UsersStage3 ==
    {[MkUser("laptop_pc", "above_400", "stable", "maker") EXCEPT
        !.social_battery = sb, !.problem_instinct = pi,
        !.primary_interest = it, !.patience_level = pl] :
        sb \in {"Introvert", "Extrovert", "Mix"},
        pi \in {"Creative", "Analytical", "Adversarial"},
        it \in {"Build", "Solve", "Protect", "Create", "Connect"},
        pl \in {"Low", "Moderate", "High"}}

SkillMenuStage3 ==
    {[skill_code |-> 1, name |-> "Skill",
      min_budget_naira |-> 20000,
      power_need |-> "Low", internet_need |-> "Zero",
      personality |-> ps, prerequisite_proficiency |-> "Basic_Smartphone",
      primary_goal |-> pg, mental_model |-> mm,
      patience_level |-> pl, time_to_earn_months |-> <<2>>,
      work_location |-> "Remote", has_keyword |-> FALSE] :
        ps \in {"Introvert", "Extrovert", "Mix"},
        mm \in {"Creative", "Analytical", "Structural"},
        pg \in {"Build", "Solve", "Protect", "Create", "Connect"},
        pl \in {"Low", "Moderate", "High"}}

\* Profiles and catalog entries for the advisory stage: quick and long
\* income urgency, a budget that passes every entry and one that passes
\* none; two skills, the first the better match, with a time to earn that
\* is unknown, 0, 3 and 4 months.
UsersAdvisory ==
    {[MkUser("laptop_pc", seed, "stable", "maker") EXCEPT !.income_urgency = iu] :
        seed \in {"below_50", "above_400"}, iu \in {"quick", "long"}}

SkillMenuAdvisory ==
    {[skill_code |-> 0, name |-> n[1],
      min_budget_naira |-> 60000,
      power_need |-> "Low", internet_need |-> "Zero",
      personality |-> n[2], prerequisite_proficiency |-> "Basic_Smartphone",
      primary_goal |-> "Build", mental_model |-> "Creative",
      patience_level |-> "Low", time_to_earn_months |-> t,
      work_location |-> "Remote", has_keyword |-> FALSE] :
        n \in {<<"Tailoring", "Introvert">>, <<"Catering", "Extrovert">>},
        t \in {<< >>, <<0>>, <<3>>, <<4>>}}

\* Profiles and catalogs for the shortlist: a catalog starts empty or with
\* one skill short of the 25 of the budget fallback or of the cap of 35,
\* all costing more than the lowest bracket allows and spread over the
\* three work locations; the entries added to it are a best match, a
\* worst match, a costly one and one that needs High power and internet.
UsersShortlist ==
    {MkUser(eq, seed, util, "maker") :
        eq \in {"smartphone_only", "laptop_pc"},
        seed \in {"below_50", "above_400"},
        util \in {"none", "stable"}}

ShortlistSkill(n, budget, loc, need, kw) ==
    [skill_code |-> 0, name |-> n,
     min_budget_naira |-> budget,
     power_need |-> need[1], internet_need |-> need[2],
     personality |-> "Introvert", prerequisite_proficiency |-> "Basic_Smartphone",
     primary_goal |-> "Build", mental_model |-> "Creative",
     patience_level |-> "Low", time_to_earn_months |-> <<2>>,
     work_location |-> loc, has_keyword |-> kw]

FillerSkills(n) ==
    [i \in 1..n |->
        [ShortlistSkill("Filler", 60000 + i,
                        IF i % 3 = 1 THEN "Remote"
                        ELSE IF i % 3 = 2 THEN "Hybrid" ELSE "On-site",
                        <<"Low", "Zero">>, FALSE)
            EXCEPT !.skill_code = i]]

SkillMenuShortlist ==
    {ShortlistSkill("Best", 40000, "Remote", <<"Low", "Zero">>, FALSE),
     ShortlistSkill("Worst", 55000, "On-site", <<"Medium", "Medium">>, TRUE),
     ShortlistSkill("Costly", 90000, "Remote", <<"Low", "Zero">>, FALSE),
     ShortlistSkill("Demanding", 50000, "Remote", <<"High", "High">>, FALSE)}

\* Profiles and catalog entries for comparing the two copies of stages 1
\* and 2: every answer and every tag either copy reads, budgets below and
\* above the lowest ceiling.
UsersBoth ==
    {[MkUser(eq, seed, util, "maker") EXCEPT
        !.mobility = m, !.workspace_preference = w] :
        eq \in {"none", "smartphone_only", "laptop_pc"},
        seed \in {"below_50", "above_400"},
        util \in {"none", "outages", "stable"},
        m \in {"Remote", "On-site", "Hybrid"},
        w \in {"hands_on", "desk", "mix"}}

SkillMenuBoth ==
    {[skill_code |-> 1, name |-> "Skill",
      min_budget_naira |-> b,
      power_need |-> pw, internet_need |-> nt,
      personality |-> "Introvert", prerequisite_proficiency |-> pq,
      primary_goal |-> "Build", mental_model |-> "Creative",
      patience_level |-> "Low", time_to_earn_months |-> <<2>>,
      work_location |-> loc, has_keyword |-> kw] :
        b \in {40000, 60000},
        pq \in {"Basic_Smartphone", "Basic_Computer", "Advanced_PC", "Apprenticeship"},
        pw \in {"Low", "Medium", "High"},
        nt \in {"Zero", "Low", "Medium", "High"},
        loc \in {"Remote", "On-site", "Hybrid"},
        kw \in BOOLEAN}

\* A second catalog entry, open to every profile of UsersBoth.
ReferenceSkill ==
    [skill_code |-> 2, name |-> "Tailoring",
     min_budget_naira |-> 40000,
     power_need |-> "Medium", internet_need |-> "Medium",
     personality |-> "Extrovert", prerequisite_proficiency |-> "Basic_Smartphone",
     primary_goal |-> "Solve", mental_model |-> "Analytical",
     patience_level |-> "High", time_to_earn_months |-> <<6>>,
     work_location |-> "On-site", has_keyword |-> FALSE]

SeqsUpTo(S, n) == UNION {[1..k -> S] : k \in 0..n}

LLMOutcomes ==
    {[kind |-> k, recs |-> << >>, meta |-> FALSE] :
        k \in {"throw", "empty_text", "not_json", "json_other"}}
    \cup {[kind |-> "json", recs |-> r, meta |-> TRUE] :
            r \in SeqsUpTo(LLMItemMenu, MaxLLMItems)}
    \cup {[kind |-> "json", recs |-> r, meta |-> FALSE] :
            r \in SeqsUpTo(LLMItemMenu, 1)}
    \cup {[kind |-> "json", recs |-> <<it>>, meta |-> TRUE] :
            it \in LLMBoundaryItems}
    \cup {[kind |-> "json", recs |-> r, meta |-> TRUE] :
            r \in LLMLongResponses}

\* Provider localities, relative to the requests of Bodies: "area" ranks 1
\* when the request names the area and 2 otherwise, "city" 2, "state" 3 and
\* "far" 99.
Locality(loc) ==
    CASE loc = "area" -> [state |-> "Lagos", city |-> "Ikeja", area |-> <<"Alausa">>]
      [] loc = "city" -> [state |-> "Lagos", city |-> "Ikeja", area |-> << >>]
      [] loc = "state" -> [state |-> "Lagos", city |-> "Epe", area |-> <<"Alausa">>]
      [] loc = "far" -> [state |-> "Abuja", city |-> "Ikeja", area |-> <<"Alausa">>]

Bodies ==
    {[state |-> "Lagos", city |-> "Ikeja", area |-> a] : a \in {"Alausa", ""}}

\* The hidden fields of a provider: contact, address, capability flags.
HiddenMenu ==
    {[phone |-> <<"08010000001">>, whatsapp |-> << >>, address |-> <<"12 Allen Ave">>,
      has_power_backup |-> TRUE, has_training_laptops |-> FALSE, has_internet |-> TRUE],
     [phone |-> << >>, whatsapp |-> <<"08020000002">>, address |-> << >>,
      has_power_backup |-> FALSE, has_training_laptops |-> TRUE, has_internet |-> FALSE]}

DefaultHidden ==
    [phone |-> <<"08010000001">>, whatsapp |-> << >>, address |-> <<"12 Allen Ave">>,
     has_power_backup |-> TRUE, has_training_laptops |-> FALSE, has_internet |-> TRUE]

\* The physical-delivery percentages of a row and of its provider:
\* "row" 50 / null, "provider" null / 10, "zero" 0 / 50, "nine" 9 / null,
\* "unset" null / null.
RowPct(kind) ==
    CASE kind = "row" -> <<50>> [] kind = "zero" -> <<0>> [] kind = "nine" -> <<9>>
      [] OTHER -> << >>

ProviderPct(kind) ==
    CASE kind = "provider" -> <<10>> [] kind = "zero" -> <<50>> [] OTHER -> << >>

MkRow(pid, loc, kind, h) ==
    [skill_code |-> 1,
     course_fee_min_ngn |-> <<20000>>,
     course_fee_max_ngn |-> IF kind = "row" THEN <<45000>> ELSE << >>,
     duration_weeks |-> <<12>>,
     physical_delivery_percent |-> RowPct(kind),
     mode_supported |-> IF kind = "row" THEN <<"Hybrid">> ELSE << >>,
     providers |->
        <<[id |-> pid,
           name |-> IF pid = 1 THEN "Ade Tech Hub" ELSE "Bola Academy",
           provider_type |-> IF pid = 1 THEN "Individual" ELSE "TrainingCenter",
           phone |-> h.phone,
           whatsapp |-> h.whatsapp,
           state |-> Locality(loc).state,
           city |-> Locality(loc).city,
           area |-> Locality(loc).area,
           address |-> h.address,
           physical_delivery_percent |-> ProviderPct(kind),
           mode_supported |-> <<"Physical">>,
           has_power_backup |-> h.has_power_backup,
           has_training_laptops |-> h.has_training_laptops,
           has_internet |-> h.has_internet]>>]

\* A row whose provider_id joins no provider.
OrphanRow ==
    [skill_code |-> 1,
     course_fee_min_ngn |-> << >>, course_fee_max_ngn |-> << >>,
     duration_weeks |-> << >>,
     physical_delivery_percent |-> <<80>>,
     mode_supported |-> <<"Online">>,
     providers |-> << >>]

\* The visible parts a row is drawn from: [pid, loc, kind], or an orphan.
RowShapes ==
    {[pid |-> pid, loc |-> loc, kind |-> "row"] :
        pid \in {1, 2}, loc \in {"area", "city", "state", "far"}}
    \cup {[pid |-> 1, loc |-> "city", kind |-> kind] :
            kind \in {"provider", "zero", "nine", "unset"}}
    \cup {[pid |-> 0, loc |-> "city", kind |-> "orphan"]}

RowShapesNI ==
    {[pid |-> 1, loc |-> "area", kind |-> "row"],
     [pid |-> 1, loc |-> "city", kind |-> "provider"],
     [pid |-> 2, loc |-> "city", kind |-> "row"],
     [pid |-> 2, loc |-> "far", kind |-> "zero"]}

RowOf(shape, h) ==
    IF shape.kind = "orphan" THEN OrphanRow
    ELSE MkRow(shape.pid, shape.loc, shape.kind, h)

\* MaxProviders - 1 rows of as many further providers, all in the user's
\* city and all clearing the threshold.
FillerRows ==
    [i \in 1..(MaxProviders - 1) |->
        [MkRow(1, "city", "row", DefaultHidden) EXCEPT
            !.providers[1].id = 100 + i,
            !.providers[1].name = "Centre"]]

(***************************************************************************)
(* The unlock operations: session start, payment initiation, the three     *)
(* payment routes (verify, webhook, callback) and the two coupon handlers. *)
(* A row of table sessions is [present, unlocked, unlocked_via,            *)
(* payment_status, amount_paid_ngn, flw_tx_ref]; the timestamps and        *)
(* flw_transaction_id the routes also write are left out.  A tx_ref is the *)
(* sequence of its "-"-separated parts.  An amount reported by the gateway *)
(* is held in tenths of a naira.                                           *)
(***************************************************************************)
SessionIds == {"sess_a", "sess_b"}

REQUIRED_AMOUNT == 1999

NoSession ==
    [present |-> FALSE, unlocked |-> FALSE, unlocked_via |-> "",
     payment_status |-> "", amount_paid_ngn |-> << >>, flw_tx_ref |-> << >>]

\* What GET /v3/transactions/{id}/verify answers: the HTTP outcome, the
\* "status" of the envelope, and data.status, data.currency, data.amount
\* (absent when data is missing or amount is not a number).
MkVerify(httpOk, envelope, st, cur, amt) ==
    [httpOk |-> httpOk, envelope |-> envelope, status |-> st,
     currency |-> cur, amount |-> amt]

NoVerify == MkVerify(FALSE, "", "", "", << >>)

VerifyOutcomes ==
    {MkVerify(FALSE, "error", "", "", << >>),
     MkVerify(TRUE, "success", "", "", << >>),
     MkVerify(TRUE, "success", "successful", "NGN", <<19990>>),
     MkVerify(TRUE, "success", "successful", "NGN", <<19994>>),
     MkVerify(TRUE, "success", "successful", "NGN", <<19995>>),
     MkVerify(TRUE, "success", "successful", "NGN", <<20000>>),
     MkVerify(TRUE, "success", "successful", "NGN", <<1000>>),
     MkVerify(TRUE, "success", "successful", "USD", <<19990>>),
     MkVerify(TRUE, "success", "failed", "NGN", <<19990>>),
     MkVerify(TRUE, "error", "successful", "NGN", <<19990>>)}

\* Number.isFinite(amountRaw) ? Math.round(amountRaw) : null, on tenths.
roundedAmount(v) ==
    IF v.amount = << >> THEN << >> ELSE <<(v.amount[1] + 5) \div 10>>

\* status === "successful" && currency === "NGN" && amount === 1999.
paymentValid(v) ==
    /\ v.status = "successful"
    /\ v.currency = "NGN"
    /\ roundedAmount(v) = <<REQUIRED_AMOUNT>>

\* v.ok && json?.status === "success" && json?.data?.status === "successful".
callbackOk(v) ==
    v.httpOk /\ v.envelope = "success" /\ v.status = "successful"

\* `amount_mismatch_or_failed:${status || "unknown"}`.
failedStatus(v) ==
    "amount_mismatch_or_failed:" \o (IF v.status = "" THEN "unknown" ELSE v.status)

\* The tx_ref values of a webhook: empty, S2E-<session_id>-<timestamp> as
\* the initiate routes build it, and one without separators.
TxRefOf(s) == <<"S2E", s, "1">>

TxRefs == {<< >>, <<"ref">>} \cup {TxRefOf(s) : s \in SessionIds}

\* .update(changes).eq("session_id", s): only an existing row changes.
updateSession(tbl, s, changes) ==
    IF tbl[s].present
    THEN [tbl EXCEPT ![s] = [f \in DOMAIN tbl[s] |->
            IF f \in DOMAIN changes THEN changes[f] ELSE tbl[s][f]]]
    ELSE tbl

\* .upsert({session_id, ...changes}, {onConflict: "session_id"}).
upsertSession(tbl, s, changes) ==
    updateSession([tbl EXCEPT ![s].present = TRUE], s, changes)

\* .update(changes).eq("flw_tx_ref", ref).
updateByTxRef(tbl, ref, changes) ==
    [s \in DOMAIN tbl |->
        IF tbl[s].present /\ tbl[s].flw_tx_ref = <<ref>>
        THEN [f \in DOMAIN tbl[s] |->
                IF f \in DOMAIN changes THEN changes[f] ELSE tbl[s][f]]
        ELSE tbl[s]]

\* The values a payment route writes when it unlocks.
paymentUnlock(v) ==
    [unlocked |-> TRUE, unlocked_via |-> "payment",
     payment_status |-> "successful", amount_paid_ngn |-> roundedAmount(v)]

NoCall ==
    [route |-> "none", session_id |-> "", verify |-> NoVerify,
     coupon_supplied |-> FALSE, redeem |-> "not_called", outcome |-> ""]

MkCall(route, s, v, supplied, redeem, outcome) ==
    [route |-> route, session_id |-> s, verify |-> v,
     coupon_supplied |-> supplied, redeem |-> redeem, outcome |-> outcome]

UnlockIdle ==
    /\ sessions = [s \in SessionIds |-> NoSession]
    /\ result_unlocks = [s \in SessionIds |-> << >>]
    /\ lastCall = NoCall
    /\ served = 0

NoUser == MkUser("none", "below_50", "stable", "maker")
NoLLM == [kind |-> "not_called", recs |-> << >>, meta |-> FALSE]
NoBody == [state |-> "", city |-> "", area |-> ""]
NoRequest == [equipment_access |-> "none", computer_proficiency |-> << >>,
              mode |-> << >>, phone |-> "absent"]
NoResponse == [status |-> 0, names |-> {}, mode |-> "", unlocked |-> FALSE,
               recommendations |-> << >>]

\* The requests of the recommend route: every equipment tier, a proficiency
\* absent, below, inside and above the accepted ranges, every mode.
Requests ==
    {[equipment_access |-> eq, computer_proficiency |-> cp, mode |-> m, phone |-> ph] :
        eq \in {"none", "smartphone_only", "laptop_pc"},
        cp \in {<< >>, <<0>>, <<1>>, <<4>>, <<5>>, <<6>>, <<10>>, <<11>>},
        m \in {<< >>, <<"preview">>, <<"full">>},
        ph \in {"absent", "valid", "invalid"}}

\* The AssessmentPayload handed to scoring: the first handler passes the
\* parsed request, the second a payload with the halved proficiency.
payloadOf(h, r) ==
    [MkUser(r.equipment_access, "above_400", "stable", "maker") EXCEPT
        !.computer_proficiency =
            IF h = "rules" THEN r.computer_proficiency
            ELSE IF r.equipment_access = "laptop_pc"
            THEN normalizeProficiencyTo5(r.computer_proficiency)
            ELSE << >>]

SkillNamed(n) == CHOOSE a \in SkillMenu : a.name = n

\* What skills_v1 holds when the route reads it: nothing, or two skills.
RouteCatalogs ==
    {<< >>,
     <<[SkillNamed("Tailoring") EXCEPT !.skill_code = 1],
       [SkillNamed("Data Analysis") EXCEPT !.skill_code = 2]>>}

\* The outcomes of the model call the route is checked with: a failure, and
\* a well-formed answer naming the first skill.
RouteLLMOutcomes ==
    {o \in LLMOutcomes :
        \/ o.kind = "throw"
        \/ /\ o.kind = "json" /\ o.meta /\ Len(o.recs) = 1
           /\ o.recs[1].skill_code = 1 /\ o.recs[1].score = 80}

(***************************************************************************)
(* The deterministic recommendation request.                               *)
(***************************************************************************)
RecommendIdle ==
    /\ user = NoUser /\ skills = << >> /\ result = << >>
    /\ llm = NoLLM /\ via = "none" /\ calls = 0

RouteIdle ==
    /\ req = NoRequest /\ handler = "none" /\ catalogRead = FALSE
    /\ response = NoResponse

ProvidersIdle ==
    /\ body = NoBody /\ isUnlocked = FALSE /\ dbOutcome = "none" /\ status = 0
    /\ rows = << >> /\ rowsAlt = << >>
    /\ providers = << >> /\ providersAlt = << >>

Init ==
    /\ user \in Users
    /\ skills = << >>
    /\ pc = "input"
    /\ result = << >>
    /\ llm = NoLLM
    /\ via = "none"
    /\ calls = 0
    /\ RouteIdle
    /\ ProvidersIdle
    /\ UnlockIdle

\* The catalog read for the request gains one more row.
AddSkill(max) ==
    /\ pc = "input"
    /\ Len(skills) < max
    /\ \E a \in SkillMenu :
          skills' = Append(skills, [a EXCEPT !.skill_code = Len(skills) + 1])
    /\ UNCHANGED <<user, pc, result, llm, via, calls, routeVars, provVars, unlockVars>>

RunPipeline ==
    /\ pc = "input"
    /\ result' = runRecommendationPipeline(user, skills)
    /\ pc' = "done"
    /\ UNCHANGED <<user, skills, llm, via, calls, routeVars, provVars, unlockVars>>

Next ==
    \/ AddSkill(MaxSkills)
    \/ RunPipeline

Spec == Init /\ [][Next]_vars

(***************************************************************************)
(* Stage 1 of the pipeline on its own.                                     *)
(***************************************************************************)
InitStage1 ==
    /\ user \in UsersStage1
    /\ skills = << >>
    /\ pc = "input"
    /\ result = << >>
    /\ llm = NoLLM
    /\ via = "none"
    /\ calls = 0
    /\ RouteIdle
    /\ ProvidersIdle
    /\ UnlockIdle

AddSkillStage1 ==
    /\ pc = "input"
    /\ Len(skills) < MaxSkillsStage1
    /\ \E a \in SkillMenuStage1 :
          skills' = Append(skills, [a EXCEPT !.skill_code = Len(skills) + 1])
    /\ UNCHANGED <<user, pc, result, llm, via, calls, routeVars, provVars, unlockVars>>

\* The pipeline up to the end of stage 1: result holds stage1Shortlist.
RunStage1 ==
    /\ pc = "input"
    /\ result' = stage1Shortlist(user, skills)
    /\ via' = "stage1"
    /\ pc' = "done"
    /\ UNCHANGED <<user, skills, llm, calls, routeVars, provVars, unlockVars>>

NextStage1 ==
    \/ AddSkillStage1
    \/ RunStage1

SpecStage1 == InitStage1 /\ [][NextStage1]_vars

(***************************************************************************)
(* The deterministic request over the catalogs of the advisory stage.     *)
(***************************************************************************)
InitAdvisory ==
    /\ user \in UsersAdvisory
    /\ skills = << >>
    /\ pc = "input"
    /\ result = << >>
    /\ llm = NoLLM
    /\ via = "none"
    /\ calls = 0
    /\ RouteIdle
    /\ ProvidersIdle
    /\ UnlockIdle

AddSkillAdvisory ==
    /\ pc = "input"
    /\ Len(skills) < MaxSkillsAdvisory
    /\ \E a \in SkillMenuAdvisory :
          skills' = Append(skills, [a EXCEPT !.skill_code = Len(skills) + 1])
    /\ UNCHANGED <<user, pc, result, llm, via, calls, routeVars, provVars, unlockVars>>

NextAdvisory ==
    \/ AddSkillAdvisory
    \/ RunPipeline

SpecAdvisory == InitAdvisory /\ [][NextAdvisory]_vars

(***************************************************************************)
(* The shortlist the Gemini adapter builds for the model.                  *)
(***************************************************************************)
InitShortlist ==
    /\ user \in UsersShortlist
    /\ skills \in {<< >>, FillerSkills(ShortlistFallbackN - 1),
                   FillerSkills(ShortlistCap - 1)}
    /\ pc = "input"
    /\ result = << >>
    /\ llm = NoLLM
    /\ via = "none"
    /\ calls = 0
    /\ RouteIdle
    /\ ProvidersIdle
    /\ UnlockIdle

\* The number of skills added to the catalog the request started from.
AddedSkills ==
    IF Len(skills) >= ShortlistCap - 1 THEN Len(skills) - (ShortlistCap - 1)
    ELSE IF Len(skills) >= ShortlistFallbackN - 1
    THEN Len(skills) - (ShortlistFallbackN - 1)
    ELSE Len(skills)

AddSkillShortlist ==
    /\ pc = "input"
    /\ AddedSkills < MaxSkillsShortlist
    /\ \E a \in SkillMenuShortlist :
          skills' = Append(skills, [a EXCEPT !.skill_code = Len(skills) + 1])
    /\ UNCHANGED <<user, pc, result, llm, via, calls, routeVars, provVars, unlockVars>>

\* result holds shortlistSkills, what the adapter sends to the model.
RunShortlist ==
    /\ pc = "input"
    /\ result' = shortlistWithDeltas(user, skills).shortlistSkills
    /\ via' = "shortlist"
    /\ pc' = "done"
    /\ UNCHANGED <<user, skills, llm, calls, routeVars, provVars, unlockVars>>

NextShortlist ==
    \/ AddSkillShortlist
    \/ RunShortlist

SpecShortlist == InitShortlist /\ [][NextShortlist]_vars

(***************************************************************************)
(* The unlock operations against the two tables, and the provider lookup   *)
(* that reads result_unlocks.  Requests are served one after the other.    *)
(***************************************************************************)
InitUnlock ==
    /\ RecommendIdle
    /\ RouteIdle
    /\ UnlockIdle
    /\ pc = "input"
    /\ body = NoBody /\ isUnlocked = FALSE /\ dbOutcome = "none" /\ status = 0
    /\ rows = <<RowOf([pid |-> 1, loc |-> "area", kind |-> "row"], DefaultHidden)>>
    /\ rowsAlt = rows
    /\ providers = << >> /\ providersAlt = << >>

\* What every unlock operation leaves alone.
UnlockFrame ==
    /\ served' = served + 1
    /\ UNCHANGED <<recVars, routeVars>>

\* POST of the session-start route: a result_unlocks row with
\* is_unlocked false is inserted unless the session has one.
StartSession ==
    /\ served < MaxRequests
    /\ \E s \in SessionIds :
          /\ result_unlocks' =
                IF result_unlocks[s] = << >>
                THEN [result_unlocks EXCEPT ![s] = <<FALSE>>]
                ELSE result_unlocks
          /\ lastCall' = MkCall("session", s, NoVerify, FALSE, "not_called", "ok")
    /\ UnlockFrame
    /\ UNCHANGED <<sessions, provVars>>

\* POST of an initiate handler that records the tx_ref, with its
\* environment configured.  The second handler of the api initiate route
\* asks the gateway for 2000 NGN, names the callback route as redirect and
\* writes to no table.
InitiatePayment ==
    /\ served < MaxRequests
    /\ \E s \in SessionIds :
          /\ sessions' = upsertSession(sessions, s,
                [flw_tx_ref |-> <<TxRefOf(s)>>,
                 amount_paid_ngn |-> <<REQUIRED_AMOUNT>>,
                 payment_status |-> "initiated"])
          /\ lastCall' = MkCall("initiate", s, NoVerify, FALSE, "not_called", "ok")
    /\ UnlockFrame
    /\ UNCHANGED <<result_unlocks, provVars>>

\* POST of the verify route for a well-formed body or not, FLW_SECRET_KEY
\* set or not, the gateway's answer v and the outcome of the last update.
VerifyPayment ==
    /\ served < MaxRequests
    /\ \E s \in SessionIds, wellFormed \in BOOLEAN :
          LET call(vv, o) == MkCall("verify", s, vv, FALSE, "not_called", o)
          IN  IF ~wellFormed
              THEN /\ lastCall' = call(NoVerify, "400")
                   /\ UNCHANGED sessions
              ELSE \E secret \in BOOLEAN :
                IF ~secret
                THEN /\ lastCall' = call(NoVerify, "500")
                     /\ UNCHANGED sessions
                ELSE \E v \in VerifyOutcomes :
                  IF ~v.httpOk
                  THEN /\ lastCall' = call(v, "400")
                       /\ UNCHANGED sessions
                  ELSE IF ~paymentValid(v)
                  THEN /\ sessions' = updateSession(sessions, s,
                             [payment_status |-> failedStatus(v),
                              amount_paid_ngn |-> roundedAmount(v)])
                       /\ lastCall' = call(v, "not_valid")
                  ELSE \E updateError \in BOOLEAN :
                    IF updateError
                    THEN /\ lastCall' = call(v, "500")
                         /\ UNCHANGED sessions
                    ELSE /\ sessions' = updateSession(sessions, s, paymentUnlock(v))
                         /\ lastCall' = call(v, "unlocked")
    /\ UnlockFrame
    /\ UNCHANGED <<result_unlocks, provVars>>

\* The session a webhook's tx_ref maps to: the row holding the tx_ref,
\* else parts[1] of a tx_ref of three parts or more; << >> when neither.
webhookSession(tbl, ref) ==
    LET held == {s \in DOMAIN tbl : tbl[s].present /\ tbl[s].flw_tx_ref = <<ref>>}
    IN  IF held # {} THEN <<CHOOSE s \in held : TRUE>>
        ELSE IF Len(ref) >= 3 THEN <<ref[2]>>
        ELSE << >>

\* POST of the webhook route with FLW_SECRET_HASH and FLW_SECRET_KEY set:
\* the verif-hash header, the event, the tx_ref and transaction id of the
\* payload, and the gateway's answer v.
PaymentWebhook ==
    /\ served < MaxRequests
    /\ \E sig \in {"missing", "invalid", "valid"} :
          LET call(sid, vv, o) == MkCall("webhook", sid, vv, FALSE, "not_called", o)
          IN  IF sig # "valid"
              THEN /\ lastCall' = call("", NoVerify, "401")
                   /\ UNCHANGED sessions
              ELSE \E event \in {"charge.completed", "transfer.completed"} :
                IF event # "charge.completed"
                THEN /\ lastCall' = call("", NoVerify, "ignored")
                     /\ UNCHANGED sessions
                ELSE \E ref \in TxRefs, hasId \in BOOLEAN :
                  LET target == webhookSession(sessions, ref)
                      sid == IF target = << >> THEN "" ELSE target[1]
                  IN  IF ref = << >> \/ ~hasId
                      THEN /\ lastCall' = call("", NoVerify, "400")
                           /\ UNCHANGED sessions
                      ELSE \E v \in VerifyOutcomes :
                        IF ~v.httpOk
                        THEN /\ lastCall' = call(sid, v, "400")
                             /\ UNCHANGED sessions
                        ELSE IF ~paymentValid(v)
                        THEN /\ sessions' = updateByTxRef(sessions, ref,
                                   [payment_status |-> failedStatus(v),
                                    flw_tx_ref |-> <<ref>>,
                                    amount_paid_ngn |-> roundedAmount(v)])
                             /\ lastCall' = call(sid, v, "not_valid")
                        ELSE IF target = << >>
                        THEN /\ lastCall' = call(sid, v, "400")
                             /\ UNCHANGED sessions
                        ELSE IF sessions[sid].present /\ sessions[sid].unlocked
                        THEN /\ lastCall' = call(sid, v, "already")
                             /\ UNCHANGED sessions
                        ELSE \E updateError \in BOOLEAN :
                          IF updateError
                          THEN /\ sessions' = upsertSession(sessions, sid, << >>)
                               /\ lastCall' = call(sid, v, "500")
                          ELSE /\ sessions' = upsertSession(sessions, sid,
                                     paymentUnlock(v) @@ [flw_tx_ref |-> <<ref>>])
                               /\ lastCall' = call(sid, v, "unlocked")
    /\ UnlockFrame
    /\ UNCHANGED <<result_unlocks, provVars>>

\* GET of the callback route: the status, transaction_id and session_id
\* query parameters, FLW_SECRET_KEY set or not, the gateway's answer v.
PaymentCallback ==
    /\ served < MaxRequests
    /\ \E target \in {<< >>} \cup {<<s>> : s \in SessionIds} :
          LET sid == IF target = << >> THEN "" ELSE target[1]
              call(vv, o) == MkCall("callback", sid, vv, FALSE, "not_called", o)
          IN  IF target = << >>
              THEN /\ lastCall' = call(NoVerify, "missing_session")
                   /\ UNCHANGED sessions
              ELSE \E st \in {"successful", "cancelled"}, hasId \in BOOLEAN :
                IF st # "successful" \/ ~hasId
                THEN /\ lastCall' = call(NoVerify, "failed")
                     /\ UNCHANGED sessions
                ELSE \E flwKey \in BOOLEAN :
                  IF ~flwKey
                  THEN /\ lastCall' = call(NoVerify, "server_misconfig")
                       /\ UNCHANGED sessions
                  ELSE \E v \in VerifyOutcomes :
                    IF ~callbackOk(v)
                    THEN /\ lastCall' = call(v, "verify_failed")
                         /\ UNCHANGED sessions
                    ELSE /\ sessions' = upsertSession(sessions, sid,
                               [unlocked |-> TRUE, unlocked_via |-> "payment"])
                         /\ lastCall' = call(v, "successful")
    /\ UnlockFrame
    /\ UNCHANGED <<result_unlocks, provVars>>

\* POST /api/verify-coupon: redeem is how the redeem_coupon call ended
\* ("error", no row, a row with ok false, a row with ok true).
VerifyCoupon ==
    /\ served < MaxRequests
    /\ \E s \in SessionIds, wellFormed \in BOOLEAN :
          LET call(r, o) == MkCall("verify-coupon", s, NoVerify, wellFormed, r, o)
          IN  IF ~wellFormed
              THEN /\ lastCall' = call("not_called", "500")
                   /\ UNCHANGED sessions
              ELSE \E redeem \in {"error", "no_row", "rejected", "ok"} :
                IF redeem \in {"error", "no_row"}
                THEN /\ lastCall' = call(redeem, "500")
                     /\ UNCHANGED sessions
                ELSE IF redeem = "rejected"
                THEN /\ lastCall' = call(redeem, "400")
                     /\ UNCHANGED sessions
                ELSE \E upsertError \in BOOLEAN :
                  IF upsertError
                  THEN /\ lastCall' = call(redeem, "500")
                       /\ UNCHANGED sessions
                  ELSE /\ sessions' = upsertSession(sessions, s,
                             [unlocked |-> TRUE, unlocked_via |-> "coupon"])
                       /\ lastCall' = call(redeem, "unlocked")
    /\ UnlockFrame
    /\ UNCHANGED <<result_unlocks, provVars>>

\* POST of the coupon-unlock handler: coupon_code given or not,
\* free_unlock absent, false or true, and the outcome of redeem_coupon.
CouponUnlock ==
    /\ served < MaxRequests
    /\ \E s \in SessionIds, hasCode \in BOOLEAN,
          free_unlock \in {<< >>, <<FALSE>>, <<TRUE>>} :
          LET call(r, o) == MkCall("coupon-unlock", s, NoVerify, hasCode, r, o)
          IN  IF ~hasCode /\ free_unlock # <<TRUE>>
              THEN /\ lastCall' = call("not_called", "400")
                   /\ UNCHANGED sessions
              ELSE \E redeem \in IF hasCode THEN {"error", "rejected", "ok"}
                                            ELSE {"not_called"} :
                IF hasCode /\ redeem # "ok"
                THEN /\ lastCall' = call(redeem, "400")
                     /\ UNCHANGED sessions
                ELSE \E updateError \in BOOLEAN :
                  IF updateError
                  THEN /\ lastCall' = call(redeem, "400")
                       /\ UNCHANGED sessions
                  ELSE /\ sessions' = updateSession(sessions, s, [unlocked |-> TRUE])
                       /\ lastCall' = call(redeem, "unlocked")
    /\ UnlockFrame
    /\ UNCHANGED <<result_unlocks, provVars>>

\* POST /api/providers for session s: isUnlocked is
\* Boolean(unlockRow?.is_unlocked) of the session's result_unlocks row.
LookupProviders ==
    /\ served < MaxRequests
    /\ \E s \in SessionIds, b \in Bodies :
          LET unlocked == result_unlocks[s] # << >> /\ result_unlocks[s][1]
          IN  /\ body' = b
              /\ dbOutcome' = "ok"
              /\ isUnlocked' = unlocked
              /\ status' = 200
              /\ providers' = matchProviders(rows, b, unlocked)
              /\ providersAlt' = matchProviders(rowsAlt, b, unlocked)
              /\ lastCall' = MkCall("providers", s, NoVerify, FALSE, "not_called",
                                    IF unlocked THEN "unlocked" ELSE "locked")
    /\ UnlockFrame
    /\ UNCHANGED <<sessions, result_unlocks, rows, rowsAlt>>

NextUnlock ==
    \/ StartSession
    \/ InitiatePayment
    \/ VerifyPayment
    \/ PaymentWebhook
    \/ PaymentCallback
    \/ VerifyCoupon
    \/ CouponUnlock
    \/ LookupProviders

SpecUnlock == InitUnlock /\ [][NextUnlock]_vars

(***************************************************************************)
(* Stages 1 and 2 as the pipeline runs them and as the adapter runs them,  *)
(* on the same profile and catalog.                                        *)
(***************************************************************************)
InitBoth ==
    /\ user \in UsersBoth
    /\ skills \in {<<a>> : a \in SkillMenuBoth}
                 \cup {<<a, ReferenceSkill>> : a \in SkillMenuBoth}
    /\ pc = "input"
    /\ result = << >>
    /\ llm = NoLLM
    /\ via = "none"
    /\ calls = 0
    /\ RouteIdle
    /\ ProvidersIdle
    /\ UnlockIdle

\* result holds the lists of both copies: stage1Shortlist and stage2List
\* of runRecommendationPipeline (p1, p2), stage1Shortlist and stage2 of
\* shortlistWithDeltas (g1, g2).
RunBoth ==
    /\ pc = "input"
    /\ result' = [p1 |-> stage1Shortlist(user, skills),
                  p2 |-> stage2List(user, stage1Shortlist(user, skills)),
                  g1 |-> stage1ShortlistG(user, skills),
                  g2 |-> stage2G(user, skills)]
    /\ via' = "both"
    /\ pc' = "done"
    /\ UNCHANGED <<user, skills, llm, calls, routeVars, provVars, unlockVars>>

NextBoth == RunBoth

SpecBoth == InitBoth /\ [][NextBoth]_vars

(***************************************************************************)
(* The pipeline up to the end of stage 2.                                  *)
(***************************************************************************)
InitStage2 ==
    /\ user \in UsersStage2
    /\ skills = << >>
    /\ pc = "input"
    /\ result = << >>
    /\ llm = NoLLM
    /\ via = "none"
    /\ calls = 0
    /\ RouteIdle
    /\ ProvidersIdle
    /\ UnlockIdle

AddSkillStage2 ==
    /\ pc = "input"
    /\ Len(skills) < MaxSkillsStage2
    /\ \E a \in SkillMenuStage2 :
          skills' = Append(skills, [a EXCEPT !.skill_code = Len(skills) + 1])
    /\ UNCHANGED <<user, pc, result, llm, via, calls, routeVars, provVars, unlockVars>>

\* result holds stage2List: the stage-1 survivors with their deltas, less
\* the hard removal.
RunStage2 ==
    /\ pc = "input"
    /\ result' = stage2List(user, stage1Shortlist(user, skills))
    /\ via' = "stage2"
    /\ pc' = "done"
    /\ UNCHANGED <<user, skills, llm, calls, routeVars, provVars, unlockVars>>

NextStage2 ==
    \/ AddSkillStage2
    \/ RunStage2

SpecStage2 == InitStage2 /\ [][NextStage2]_vars

(***************************************************************************)
(* Stage 3 on a catalog of one skill: the four sub-scores and the base.    *)
(***************************************************************************)
InitStage3 ==
    /\ user \in UsersStage3
    /\ skills \in {<<a>> : a \in SkillMenuStage3}
    /\ pc = "input"
    /\ result = << >>
    /\ llm = NoLLM
    /\ via = "none"
    /\ calls = 0
    /\ RouteIdle
    /\ ProvidersIdle
    /\ UnlockIdle

\* result holds the sub-scores of the candidates that reach stage 3.
RunStage3 ==
    /\ pc = "input"
    /\ LET st2 == stage2List(user, stage1Shortlist(user, skills))
       IN  result' = [i \in 1..Len(st2) |-> subScores(user, st2[i].skill)]
    /\ via' = "stage3"
    /\ pc' = "done"
    /\ UNCHANGED <<user, skills, llm, calls, routeVars, provVars, unlockVars>>

NextStage3 == RunStage3

SpecStage3 == InitStage3 /\ [][NextStage3]_vars

(***************************************************************************)
(* The recommendation request through the Gemini adapter.                  *)
(***************************************************************************)
InitAI ==
    /\ user \in UsersAI
    /\ skills = << >>
    /\ pc = "input"
    /\ result = << >>
    /\ llm = NoLLM
    /\ via = "none"
    /\ calls = 0
    /\ RouteIdle
    /\ ProvidersIdle
    /\ UnlockIdle

\* recommendWithGeminiOrFallback up to its await: an empty shortlist returns
\* the deterministic result at once, else the model is called.
CallGemini ==
    /\ pc = "input"
    /\ IF Len(shortlistWithDeltas(user, skills).shortlistSkills) = 0
       THEN /\ result' = runRecommendationPipeline(user, skills)
            /\ via' = "shortlist_empty"
            /\ pc' = "done"
            /\ UNCHANGED calls
       ELSE /\ pc' = "awaiting"
            /\ calls' = calls + 1
            /\ UNCHANGED <<result, via>>
    /\ UNCHANGED <<user, skills, llm, routeVars, provVars, unlockVars>>

\* The call settles with outcome resp, and the adapter runs to its return.
GeminiReturns ==
    /\ pc = "awaiting"
    /\ llm = NoLLM
    /\ \E resp \in LLMOutcomes :
          LET ret == afterAwait(user, skills, resp)
          IN  /\ llm' = resp
              /\ result' = ret.value
              /\ via' = ret.via
              /\ pc' = afterSettle(ret.via)
    /\ UNCHANGED <<user, skills, calls, routeVars, provVars, unlockVars>>

NextAI ==
    \/ AddSkill(MaxSkillsAI)
    \/ CallGemini
    \/ GeminiReturns

SpecAI == InitAI /\ [][NextAI]_vars

\* The call is one that never settles: the await has nothing to resume on,
\* and the adapter sets no timer of its own.
GeminiNeverSettles ==
    /\ pc = "awaiting"
    /\ llm = NoLLM
    /\ llm' = [kind |-> "never_settles", recs |-> << >>, meta |-> FALSE]
    /\ UNCHANGED <<user, skills, pc, result, via, calls, routeVars, provVars, unlockVars>>

NextAIHang ==
    \/ AddSkill(MaxSkillsAI)
    \/ CallGemini
    \/ GeminiReturns
    \/ GeminiNeverSettles

SpecAIHang == InitAI /\ [][NextAIHang]_vars

(***************************************************************************)
(* The provider lookup.                                                    *)
(***************************************************************************)
InitProviders ==
    /\ RecommendIdle
    /\ RouteIdle
    /\ pc = "input"
    /\ UnlockIdle
    /\ body = NoBody /\ isUnlocked = FALSE /\ dbOutcome = "none" /\ status = 0
    /\ rows \in {<< >>, FillerRows}
    /\ rowsAlt = rows
    /\ providers = << >> /\ providersAlt = << >>

\* The number of rows added to the catalog the request started from.
AddedRows ==
    IF Len(rows) >= Len(FillerRows) /\ SubSeq(rows, 1, Len(FillerRows)) = FillerRows
    THEN Len(rows) - Len(FillerRows)
    ELSE Len(rows)

\* The provider_skills table holds one more active row for the skill.  The
\* second catalog gets the same row with hidden fields of its own.
AddRow(shapes, hiddens) ==
    /\ pc = "input"
    /\ AddedRows < MaxRows
    /\ \E shape \in shapes, h \in hiddens, hAlt \in hiddens :
          /\ rows' = Append(rows, RowOf(shape, h))
          /\ rowsAlt' = Append(rowsAlt, RowOf(shape, hAlt))
    /\ UNCHANGED <<recVars, routeVars, unlockVars, body, isUnlocked, dbOutcome, status,
                   providers, providersAlt>>

\* POST /api/providers for a request body b, with the session's unlock flag
\* and the outcome of the two queries as read from the database.
MatchProviders ==
    /\ pc = "input"
    /\ \E b \in Bodies, unlocked \in BOOLEAN,
          db \in {"ok", "unlock_error", "query_error"} :
          /\ body' = b
          /\ dbOutcome' = db
          /\ isUnlocked' = (db # "unlock_error" /\ unlocked)
          /\ IF db # "ok"
             THEN /\ status' = 500
                  /\ providers' = << >>
                  /\ providersAlt' = << >>
             ELSE /\ status' = 200
                  /\ providers' = matchProviders(rows, b, unlocked)
                  /\ providersAlt' = matchProviders(rowsAlt, b, unlocked)
    /\ pc' = "done"
    /\ UNCHANGED <<user, skills, result, llm, via, calls, routeVars, unlockVars,
                   rows, rowsAlt>>

NextProviders ==
    \/ AddRow(RowShapes, {DefaultHidden})
    \/ MatchProviders

SpecProviders == InitProviders /\ [][NextProviders]_vars

\* The same lookup over two catalogs that differ in hidden fields only.
InitNI ==
    /\ RecommendIdle
    /\ RouteIdle
    /\ UnlockIdle
    /\ pc = "input"
    /\ body = NoBody /\ isUnlocked = FALSE /\ dbOutcome = "none" /\ status = 0
    /\ rows = << >> /\ rowsAlt = << >>
    /\ providers = << >> /\ providersAlt = << >>

NextNI ==
    \/ AddRow(RowShapesNI, HiddenMenu)
    \/ MatchProviders

SpecNI == InitNI /\ [][NextNI]_vars

(***************************************************************************)
(* The recommend route.                                                    *)
(***************************************************************************)
InitRoute ==
    /\ RecommendIdle
    /\ ProvidersIdle
    /\ UnlockIdle
    /\ pc = "input"
    /\ req \in Requests
    /\ handler \in {"rules", "ai"}
    /\ catalogRead = FALSE
    /\ response = NoResponse

\* POST /api/recommend up to its first await: the body is parsed and
\* validated, and a request found wanting is answered at once.
ValidateRequest ==
    /\ pc = "input"
    /\ LET v == validate(handler, req)
       IN  IF v.ok
           THEN /\ pc' = "validated"
                /\ UNCHANGED response
           ELSE /\ pc' = "done"
                /\ response' = [NoResponse EXCEPT !.status = v.status,
                                                  !.names = v.names]
    /\ UNCHANGED <<user, skills, result, llm, via, calls, req, handler,
                   catalogRead, provVars, unlockVars>>

\* The rest of the handler: the session's unlock flag and the catalog are
\* read, the recommendations computed and the response built.  The second
\* handler also upserts the submission into assessment_submissions_v1; a
\* failed save is logged and the response is the same, so the write is
\* left out of the state.
ScoreAndRespond ==
    /\ pc = "validated"
    /\ catalogRead' = TRUE
    /\ \E unlocked \in BOOLEAN, dbError \in BOOLEAN, catalog \in RouteCatalogs,
          useAI \in BOOLEAN, resp \in RouteLLMOutcomes :
          IF dbError
          THEN /\ response' = [NoResponse EXCEPT !.status = 500]
               /\ UNCHANGED <<user, skills, result, llm>>
          ELSE LET payload == payloadOf(handler, req)
                   withAI == handler = "ai" /\ useAI
                   recs == IF withAI
                           THEN recommendWithGeminiOrFallback(payload, catalog, resp)
                           ELSE runRecommendationPipeline(payload, catalog)
                   mode == modeOf(handler, req, unlocked)
               IN  /\ user' = payload
                   /\ skills' = catalog
                   /\ result' = recs
                   /\ llm' = IF withAI THEN resp ELSE NoLLM
                   /\ response' = [status |-> 200, names |-> {}, mode |-> mode,
                                    unlocked |-> unlocked,
                                    recommendations |->
                                        IF mode = "preview" THEN previewOf(recs)
                                        ELSE recs]
    /\ pc' = "done"
    /\ UNCHANGED <<via, calls, req, handler, provVars, unlockVars>>

NextRoute ==
    \/ ValidateRequest
    \/ ScoreAndRespond

SpecRoute == InitRoute /\ [][NextRoute]_vars

(***************************************************************************)
(* Properties of the deterministic pipeline (specification Spec).          *)
(***************************************************************************)
Stage1Empty == Len(stage1Shortlist(user, skills)) = 0

IsHighHigh(s) == s.power_need = "High" /\ s.internet_need = "High"

\* The catalog row a recommendation was made from (codes are unique).
SkillOf(r) == skills[r.skill_code]

\* C1: for every profile and every non-empty catalog the pipeline returns
\* between 1 and 5 recommendations, each with an integer score in [0,100].
C1_OneToFiveScored ==
    (pc = "done" /\ llm.kind = "not_called" /\ Len(skills) >= 1) =>
        /\ Len(result) >= 1
        /\ Len(result) <= TopN
        /\ \A i \in 1..Len(result) : result[i].score \in 0..100

\* C9 as stated: if stage 1 rejects every skill of a (non-empty) catalog, the
\* pipeline returns exactly 3 skills, the cheapest ones, in ascending order
\* of min_budget_naira.
C9_ExactlyThreeCheapest ==
    (pc = "done" /\ llm.kind = "not_called" /\ Len(skills) >= 1 /\ Stage1Empty) =>
        /\ Len(result) = FallbackN
        /\ \A i \in 1..Len(result) - 1 :
              SkillOf(result[i]).min_budget_naira
                  <= SkillOf(result[i + 1]).min_budget_naira

\* C9 as amended: if stage 1 rejects every skill, the pipeline returns the
\* min(3, catalog size) skills with the lowest min_budget_naira, each once, in
\* ascending order of min_budget_naira, each with score 1; the list is not
\* empty when the catalog is not.
C9_CheapestFallback ==
    (pc = "done" /\ llm.kind = "not_called" /\ Stage1Empty) =>
        LET codes == {result[i].skill_code : i \in 1..Len(result)}
        IN  /\ Len(result) = Min(FallbackN, Len(skills))
            /\ Cardinality(codes) = Len(result)
            /\ codes \subseteq 1..Len(skills)
            /\ \A i \in 1..Len(result) - 1 :
                  SkillOf(result[i]).min_budget_naira
                      <= SkillOf(result[i + 1]).min_budget_naira
            /\ \A c \in codes : \A d \in (1..Len(skills)) \ codes :
                  skills[c].min_budget_naira <= skills[d].min_budget_naira
            /\ \A i \in 1..Len(result) : result[i].score = 1
            /\ (Len(skills) >= 1 => Len(result) >= 1)

\* C9 witness: the fallback ran on a catalog of more than 3 skills whose
\* first row is not the cheapest, so the sort and the cut both acted.
C9_Witness ==
    /\ pc = "done" /\ llm.kind = "not_called" /\ Stage1Empty
    /\ Len(skills) > FallbackN
    /\ Len(result) = FallbackN
    /\ result[1].skill_code # 1
    /\ SkillOf(result[1]).min_budget_naira < skills[1].min_budget_naira
    /\ SkillOf(result[1]).min_budget_naira < SkillOf(result[3]).min_budget_naira

\* C10 as stated: with utility reliability none, no skill whose power_need
\* and internet_need are both High is ever in the output of the pipeline.
C10_NeverHighHigh ==
    (pc = "done" /\ llm.kind = "not_called" /\ user.utility_reliability = "none") =>
        \A i \in 1..Len(result) : ~ IsHighHigh(SkillOf(result[i]))

\* C10 as amended: with utility reliability none, and at least one skill
\* passing the stage-1 filter, no skill whose power_need and internet_need
\* are both High is in the output of the pipeline.
C10_NoHighHighAfterStage1 ==
    (/\ pc = "done" /\ llm.kind = "not_called"
     /\ user.utility_reliability = "none"
     /\ ~ Stage1Empty) =>
        \A i \in 1..Len(result) : ~ IsHighHigh(SkillOf(result[i]))

\* C10 witness: utility is none, a High/High skill passed stage 1 and would
\* have had the highest score of all candidates, and the output is made of
\* the other candidates.
C10_Witness ==
    /\ pc = "done" /\ llm.kind = "not_called"
    /\ user.utility_reliability = "none"
    /\ Len(result) >= 1
    /\ \E i \in 1..Len(skills) :
          /\ IsHighHigh(skills[i])
          /\ stage1Keep(user, skills[i])
          /\ finalScore(baseScore(user, skills[i]), stage2Delta(user, skills[i]))
                > result[1].score
          /\ \A k \in 1..Len(result) : result[k].skill_code # i

\* The stage-1 survivors that the stage-2 hard removal leaves in.
Survivors ==
    {i \in 1..Len(skills) :
        /\ stage1Keep(user, skills[i])
        /\ ~ (user.utility_reliability = "none" /\ IsHighHigh(skills[i]))}

CeilingOf(b) ==
    CASE b = "below_50" -> 49999
      [] b = "50_100" -> 100000
      [] b = "100_200" -> 200000
      [] b = "200_400" -> 400000
      [] b = "above_400" -> 999999999

ToolsAllow(eq, s) ==
    eq = "laptop_pc" \/ s.prerequisite_proficiency = "Basic_Smartphone"

PassesStage1(eq, b, s) == ToolsAllow(eq, s) /\ s.min_budget_naira <= CeilingOf(b)

\* The codes of the stage-1 survivors had the profile named bracket b.
SurvivorCodes(b) ==
    LET st1 == stage1Shortlist([user EXCEPT !.seed_capital = b], skills)
    IN  {st1[i].skill_code : i \in 1..Len(st1)}

\* C12: a skill passes stage 1 exactly when the equipment tier is laptop_pc
\* or its prerequisite rank is 0 (an unrecognized tag ranking 1), and its
\* min_budget_naira does not exceed the ceiling of the bracket; the survivors
\* grow with the bracket, and a skill of min budget 60,000 that the tool check
\* lets through is rejected under below_50 and accepted under 50_100.
C12_Stage1ExactlyToolsAndBudget ==
    (pc = "done" /\ via = "stage1") =>
        /\ result = Pick(skills, FilterIdx([i \in 1..Len(skills) |->
                        PassesStage1(user.equipment_access, user.seed_capital,
                                     skills[i])], 1))
        /\ \A b \in 1..4 : SurvivorCodes(Brackets[b]) \subseteq SurvivorCodes(Brackets[b + 1])
        /\ \A i \in 1..Len(skills) :
              (skills[i].min_budget_naira = 60000
                    /\ ToolsAllow(user.equipment_access, skills[i])) =>
                  (i \notin SurvivorCodes("below_50") /\ i \in SurvivorCodes("50_100"))

\* C12 witness: under 50_100 and without a laptop, a smartphone skill of min
\* budget 60,000 is kept, while an affordable skill with an unrecognized
\* prerequisite tag is rejected.
C12_Witness ==
    /\ pc = "done" /\ via = "stage1"
    /\ user.seed_capital = "50_100" /\ user.equipment_access = "smartphone_only"
    /\ Len(skills) = 2 /\ Len(result) = 1
    /\ result[1].min_budget_naira = 60000
    /\ \E i \in 1..Len(skills) :
          /\ skills[i].prerequisite_proficiency = "Apprenticeship"
          /\ skills[i].min_budget_naira = 49999

(***************************************************************************)
(* Properties of the recommend route (specification SpecRoute).            *)
(***************************************************************************)
LaptopWithoutProficiency ==
    req.equipment_access = "laptop_pc" /\ req.computer_proficiency = << >>

ProficiencyOutside(range) ==
    req.computer_proficiency # << >> /\ req.computer_proficiency[1] \notin range

\* The request was answered with an error naming computer_proficiency, and
\* neither the catalog read nor the scoring took place.
TurnedAway ==
    /\ pc = "done"
    /\ response.status \in {400, 500}
    /\ "computer_proficiency" \in response.names
    /\ ~ catalogRead
    /\ result = << >> /\ response.recommendations = << >>

\* C13 as stated: a request with laptop_pc and no computer_proficiency, or
\* with a computer_proficiency outside 1..5, is rejected before the catalog
\* is read and before scoring, with an error naming the field.
C13_RejectsOutsideOneToFive ==
    (pc # "input" /\ (LaptopWithoutProficiency \/ ProficiencyOutside(1..5))) =>
        TurnedAway

\* C13 as amended: the same, for a computer_proficiency outside the range
\* the handler's schema accepts, 1..5 for the first handler of the route and
\* 1..10 for the second; what reaches scoring is a proficiency in 1..5, and
\* a laptop profile always carries one.
C13_RejectsOutsideSchemaRange ==
    pc # "input" =>
        /\ (\/ LaptopWithoutProficiency
            \/ ProficiencyOutside(IF handler = "rules" THEN 1..5 ELSE 1..10)) =>
                TurnedAway
        /\ (pc = "done" /\ response.status = 200) =>
              /\ user.computer_proficiency # << >> =>
                    user.computer_proficiency[1] \in 1..5
              /\ user.equipment_access = "laptop_pc" =>
                    user.computer_proficiency # << >>

\* C13 witness: the second handler turned away a proficiency of 11 with
\* status 400.
C13_Witness ==
    /\ handler = "ai"
    /\ req.computer_proficiency = <<11>>
    /\ TurnedAway
    /\ response.status = 400

\* round(100 * (0.3 P + 0.3 M + 0.2 I + 0.2 Pa)) for sub-scores given in
\* tenths: the sum below is ten times the number to round, and a half
\* rounds upwards.
WeightedPercent(s) ==
    (  30 * scorePersonality(user.social_battery, s.personality)
     + 30 * scoreMentalModel(user.problem_instinct, s.mental_model)
     + 20 * scoreInterest(user.primary_interest, s.primary_goal)
     + 20 * scorePatience(user.patience_level, s.patience_level)
     + 5) \div 10

\* The score before it is clamped.
RawScore(r) == WeightedPercent(SkillOf(r)) + stage2Delta(user, SkillOf(r))

\* C20: on the non-fallback path each recommendation's score is the
\* weighted sum of the four sub-scores (weights 0.3, 0.3, 0.2, 0.2), times
\* 100 and rounded, plus the skill's stage-2 delta, clamped to [0,100].
C20_ScoreIsClampedWeightedSum ==
    (pc = "done" /\ llm.kind = "not_called" /\ ~ Stage1Empty) =>
        \A i \in 1..Len(result) :
            result[i].score =
                (IF RawScore(result[i]) < 0 THEN 0
                 ELSE IF RawScore(result[i]) > 100 THEN 100
                 ELSE RawScore(result[i]))

\* C20 witness: a result on the non-fallback path with a recommendation
\* whose raw score is above 100 and one whose raw score is below 0.
C20_Witness ==
    /\ pc = "done" /\ llm.kind = "not_called" /\ ~ Stage1Empty
    /\ \E i, j \in 1..Len(result) :
          /\ RawScore(result[i]) > 100 /\ result[i].score = 100
          /\ RawScore(result[j]) < 0 /\ result[j].score = 0

\* The score stage 3 gives the catalog's k-th skill.
ScoreOf(k) ==
    LET raw == WeightedPercent(skills[k]) + stage2Delta(user, skills[k])
    IN  IF raw < 0 THEN 0 ELSE IF raw > 100 THEN 100 ELSE raw

\* The output is in non-increasing order of score and recommendations of
\* equal score are in catalog order.
SortedStable ==
    \A i, j \in 1..Len(result) :
        i < j => \/ result[i].score > result[j].score
                 \/ /\ result[i].score = result[j].score
                    /\ result[i].skill_code < result[j].skill_code

\* No stage-2 survivor left out of the output has a score strictly greater
\* than a recommendation in it.
NoBetterLeftOut ==
    \A k \in Survivors :
        k \notin {result[i].skill_code : i \in 1..Len(result)} =>
            \A i \in 1..Len(result) : ScoreOf(k) <= result[i].score

\* C21 as stated, for every result of the pipeline: non-increasing score,
\* ties in catalog order, no better-scored survivor left out.
C21_SortedStableEveryResult ==
    (pc = "done" /\ llm.kind = "not_called") =>
        /\ SortedStable
        /\ ~ Stage1Empty => NoBetterLeftOut

\* C21 as amended: the same for the results in which at least one skill
\* passed stage 1 (the budget fallback orders by min_budget_naira instead).
C21_SortedStableWhenStage1Passes ==
    (pc = "done" /\ llm.kind = "not_called" /\ ~ Stage1Empty) =>
        /\ SortedStable
        /\ NoBetterLeftOut

\* C21 witness: more than 5 stage-2 survivors, a result holding two
\* recommendations of equal score and two of different scores, the first
\* of them later in the catalog than the second.
C21_Witness ==
    /\ pc = "done" /\ llm.kind = "not_called" /\ ~ Stage1Empty
    /\ Cardinality(Survivors) > TopN
    /\ \E i \in 1..Len(result) - 1 : result[i].score = result[i + 1].score
    /\ \E i \in 1..Len(result) - 1 :
          /\ result[i].score > result[i + 1].score
          /\ result[i].skill_code > result[i + 1].skill_code

\* The three terms of the stage-2 delta, as tables over the profile's
\* answer and the skill's tags.
UtilityTerm(util, power, internet) ==
    CASE util = "none" ->
            (IF power \in {"Medium", "High"} THEN -15 ELSE 0)
          + (IF internet \in {"Medium", "High"} THEN -15 ELSE 0)
      [] util = "outages" ->
            (IF power = "High" THEN -10 ELSE 0)
          + (IF internet = "High" THEN -10 ELSE 0)
      [] util = "stable" -> 0

MobilityTerm(mob, loc) ==
    CASE mob = "Remote" ->
            (CASE loc = "Remote" -> 8 [] loc = "Hybrid" -> 4 [] OTHER -> -10)
      [] mob \in {"On-site", "Hybrid"} -> (IF loc = mob THEN 6 ELSE 0)

WorkspaceTerm(ws, digital) ==
    CASE ws = "desk" -> (IF digital THEN 4 ELSE -2)
      [] ws = "hands_on" -> (IF digital THEN -2 ELSE 4)
      [] ws = "mix" -> 0

Digital(s) ==
    \/ s.prerequisite_proficiency \in {"Basic_Computer", "Advanced_PC"}
    \/ s.has_keyword

\* C22: the stage-2 delta of every candidate is the sum of the utility,
\* mobility and workspace terms of the tables above, and so lies in
\* [-42, 12].
C22_DeltaIsSumOfThreeTerms ==
    (pc = "done" /\ via = "stage2") =>
        \A i \in 1..Len(result) :
            LET s == result[i].skill
            IN  /\ result[i].stage2Delta =
                        UtilityTerm(user.utility_reliability, s.power_need,
                                    s.internet_need)
                      + MobilityTerm(user.mobility, s.work_location)
                      + WorkspaceTerm(user.workspace_preference, Digital(s))
                /\ result[i].stage2Delta >= -42
                /\ result[i].stage2Delta <= 12

\* C22 witness: a candidate at the lower end of the range, -42: no
\* utilities against Medium or High needs, a Remote user against an
\* On-site skill, and a workspace mismatch.
C22_Witness ==
    /\ pc = "done" /\ via = "stage2"
    /\ \E i \in 1..Len(result) :
          /\ result[i].stage2Delta = -42
          /\ user.utility_reliability = "none"
          /\ user.mobility = "Remote"
          /\ result[i].skill.work_location = "On-site"

\* The compatibility tables, in tenths, as lookups on the pair <<user's
\* answer, skill's tag>>: the pairs listed, 10 on an exact match, 2 for
\* every other pair.
TableValue(listed, pair) ==
    IF pair[1] = pair[2] THEN 10
    ELSE IF \E e \in listed : e[1] = pair THEN (CHOOSE e \in listed : e[1] = pair)[2]
    ELSE 2

PersonalityTable ==
    {<<<<u, "Mix">>, 7>> : u \in {"Introvert", "Extrovert"}}
    \cup {<<<<"Mix", t>>, 7>> : t \in {"Introvert", "Extrovert"}}

MentalModelTable ==
    {<<<<"Analytical", "Structural">>, 7>>, <<<<"Adversarial", "Structural">>, 7>>,
     <<<<"Adversarial", "Analytical">>, 4>>,
     <<<<"Creative", "Analytical">>, 3>>, <<<<"Creative", "Structural">>, 3>>}

InterestTable ==
    {<<<<"Build", "Solve">>, 6>>, <<<<"Solve", "Build">>, 6>>,
     <<<<"Protect", "Solve">>, 5>>,
     <<<<"Create", "Connect">>, 5>>, <<<<"Connect", "Create">>, 5>>}

PatienceTable ==
    {<<<<"Low", "Moderate">>, 6>>, <<<<"Moderate", "Low">>, 6>>,
     <<<<"Moderate", "High">>, 6>>, <<<<"High", "Moderate">>, 6>>}

\* C23: each of the four sub-scores is the value of its compatibility
\* table, 1.0 on an exact match and never below 0.2, and the weighted base
\* before the delta is never below 20.
C23_SubScoresFollowTables ==
    (pc = "done" /\ via = "stage3") =>
        \A i \in 1..Len(result) :
            LET r == result[i]
                s == skills[r.skill_code]
            IN  /\ r.P = TableValue(PersonalityTable,
                                    <<user.social_battery, s.personality>>)
                /\ r.M = TableValue(MentalModelTable,
                                    <<user.problem_instinct, s.mental_model>>)
                /\ r.I = TableValue(InterestTable,
                                    <<user.primary_interest, s.primary_goal>>)
                /\ r.Pa = TableValue(PatienceTable,
                                     <<user.patience_level, s.patience_level>>)
                /\ user.social_battery = s.personality => r.P = 10
                /\ user.problem_instinct = s.mental_model => r.M = 10
                /\ user.primary_interest = s.primary_goal => r.I = 10
                /\ user.patience_level = s.patience_level => r.Pa = 10
                /\ r.P >= 2 /\ r.M >= 2 /\ r.I >= 2 /\ r.Pa >= 2
                /\ r.base >= 20

\* C23 witness: a candidate with all four sub-scores at the floor, whose
\* base is 20, the user's interest being Solve and the skill's goal
\* Protect.
C23_Witness ==
    /\ pc = "done" /\ via = "stage3"
    /\ \E i \in 1..Len(result) :
          /\ result[i].P = 2 /\ result[i].M = 2
          /\ result[i].I = 2 /\ result[i].Pa = 2
          /\ result[i].base = 20
          /\ user.primary_interest = "Solve"
          /\ skills[result[i].skill_code].primary_goal = "Protect"

\* The backup suggestions a result could hold, one per skill name, and the
\* condition of the cross-recommendation rule.
Suggestions == {"consider_also: " \o skills[k].name : k \in 1..Len(skills)}

EarnsAfterThreeMonths(r) ==
    /\ Len(SkillOf(r).time_to_earn_months) = 1
    /\ SkillOf(r).time_to_earn_months[1] > 3

BackupDue ==
    /\ user.income_urgency = "quick"
    /\ Len(result) >= 2
    /\ EarnsAfterThreeMonths(result[1])

\* The top recommendation carries its own urgency warning and, after it,
\* the suggestion naming the second recommendation, exactly when the rule
\* applies; no other recommendation carries a suggestion.
BackupRule ==
    /\ BackupDue =>
          \E a, b \in 1..Len(result[1].warnings) :
              /\ a < b
              /\ result[1].warnings[a] = "longer_than_3_months"
              /\ result[1].warnings[b] = "consider_also: " \o result[2].skill_name
    /\ ~ BackupDue =>
          \A i \in 1..Len(result) : \A a \in 1..Len(result[i].warnings) :
              result[i].warnings[a] \notin Suggestions
    /\ \A i \in 2..Len(result) : \A a \in 1..Len(result[i].warnings) :
          result[i].warnings[a] \notin Suggestions

\* C24 as stated, for every result of the pipeline.
C24_BackupSuggestionEveryResult ==
    (pc = "done" /\ llm.kind = "not_called") => BackupRule

\* C24 as amended: the rule for the results in which at least one skill
\* passed stage 1 (the budget fallback returns before the advisory stage).
C24_BackupSuggestionWhenStage1Passes ==
    (pc = "done" /\ llm.kind = "not_called" /\ ~ Stage1Empty) =>
        /\ BackupRule
        /\ \A i \in 2..Len(result) :
              result[i].warnings =
                  (IF user.income_urgency = "quick" /\ EarnsAfterThreeMonths(result[i])
                   THEN <<"longer_than_3_months">> ELSE << >>)

\* C24 witness: a quick-income profile whose top recommendation earns
\* after more than 3 months and whose second one does not; the top one has
\* two warnings, the second none.
C24_Witness ==
    /\ pc = "done" /\ llm.kind = "not_called" /\ ~ Stage1Empty
    /\ BackupDue
    /\ ~ EarnsAfterThreeMonths(result[2])
    /\ Len(result[1].warnings) = 2
    /\ result[2].warnings = << >>

\* How often sentence w occurs among the reasons of r.
Occurrences(r, w) == Cardinality({k \in 1..Len(r.reasons) : r.reasons[k] = w})

\* The reasons of r: the feasibility-budget sentence once, the environment
\* sentence once exactly when utility reliability is not stable, and a
\* "Matches your..." sentence once for each sub-score of at least 0.9 and
\* for no other.
ReasonRule(r) ==
    LET s == SkillOf(r)
        One(b) == IF b THEN 1 ELSE 0
    IN  /\ Occurrences(r, "fits_seed_capital") = 1
        /\ Occurrences(r, "utility_considered") =
              One(user.utility_reliability # "stable")
        /\ Occurrences(r, "matches_social_style") =
              One(scorePersonality(user.social_battery, s.personality) >= 9)
        /\ Occurrences(r, "matches_problem_solving") =
              One(scoreMentalModel(user.problem_instinct, s.mental_model) >= 9)
        /\ Occurrences(r, "matches_interest") =
              One(scoreInterest(user.primary_interest, s.primary_goal) >= 9)
        /\ Occurrences(r, "matches_patience") =
              One(scorePatience(user.patience_level, s.patience_level) >= 9)

\* C25 as stated, for every recommendation the pipeline returns.
C25_ReasonsEveryResult ==
    (pc = "done" /\ llm.kind = "not_called") =>
        \A i \in 1..Len(result) : ReasonRule(result[i])

\* C25 as amended: the rule for the recommendations of the results in
\* which at least one skill passed stage 1 (the budget fallback gives its
\* own two reasons).
C25_ReasonsWhenStage1Passes ==
    (pc = "done" /\ llm.kind = "not_called" /\ ~ Stage1Empty) =>
        \A i \in 1..Len(result) : ReasonRule(result[i])

\* C25 witness: a scored recommendation for a profile without stable
\* utilities, with a partial personality match (0.7, no sentence), beside
\* one with an exact match of interest.
C25_Witness ==
    /\ pc = "done" /\ llm.kind = "not_called" /\ ~ Stage1Empty
    /\ user.utility_reliability # "stable"
    /\ \E i, j \in 1..Len(result) :
          /\ scorePersonality(user.social_battery, SkillOf(result[i]).personality) = 7
          /\ Occurrences(result[i], "matches_social_style") = 0
          /\ Occurrences(result[i], "utility_considered") = 1
          /\ Occurrences(result[j], "matches_interest") = 1
          /\ Occurrences(result[j], "utility_considered") = 1

\* The catalog positions of the cheapest n skills (earlier first among
\* equal budgets), of the candidates of stage 2 as the adapter takes them
\* (the stage-1 survivors, or the 25 cheapest when there is none), and of
\* those the hard removal keeps.
CheapestPositions(n) ==
    {k \in 1..Len(skills) :
        Cardinality({j \in 1..Len(skills) :
            \/ skills[j].min_budget_naira < skills[k].min_budget_naira
            \/ /\ skills[j].min_budget_naira = skills[k].min_budget_naira
               /\ j < k}) < n}

ShortlistCandidates ==
    IF Stage1Empty THEN CheapestPositions(25)
    ELSE {k \in 1..Len(skills) : stage1Keep(user, skills[k])}

ShortlistSurvivors ==
    {k \in ShortlistCandidates :
        ~ (user.utility_reliability = "none" /\ IsHighHigh(skills[k]))}

\* C26: the shortlist has at most 35 skills, all of them stage-2
\* survivors, in non-increasing order of stage-2 delta; no survivor left
\* out has a larger delta than a skill on it; and when stage 1 rejects
\* every skill the shortlist is drawn from the 25 cheapest skills.
C26_ShortlistCappedSortedByDelta ==
    (pc = "done" /\ via = "shortlist") =>
        /\ Len(result) <= 35
        /\ \A i \in 1..Len(result) : result[i].skill_code \in ShortlistSurvivors
        /\ \A i, j \in 1..Len(result) :
              i < j => stage2Delta(user, result[i]) >= stage2Delta(user, result[j])
        /\ \A k \in ShortlistSurvivors :
              k \notin {result[i].skill_code : i \in 1..Len(result)} =>
                  \A i \in 1..Len(result) :
                      stage2Delta(user, skills[k]) <= stage2Delta(user, result[i])
        /\ Stage1Empty =>
              \A i \in 1..Len(result) : result[i].skill_code \in CheapestPositions(25)

\* C26 witness: 36 stage-2 survivors of different deltas, the last of them
\* in the catalog on a shortlist of 35 in place of an earlier one.
C26_Witness ==
    /\ pc = "done" /\ via = "shortlist"
    /\ Cardinality(ShortlistSurvivors) > ShortlistCap
    /\ Len(result) = ShortlistCap
    /\ \E i \in 1..Len(result) : result[i].skill_code > ShortlistCap
    /\ stage2Delta(user, result[1]) > stage2Delta(user, result[ShortlistCap])

\* C27: when at least one skill passes stage 1, the pipeline and the
\* adapter have the same stage-1 survivors, and after the hard elimination
\* the same candidates with the same stage-2 deltas.
C27_BothCopiesAgree ==
    (pc = "done" /\ via = "both" /\ Len(result.p1) >= 1) =>
        /\ Len(result.g1) = Len(result.p1)
        /\ \A i \in 1..Len(result.p1) :
              result.g1[i].skill_code = result.p1[i].skill_code
        /\ Len(result.g2) = Len(result.p2)
        /\ \A i \in 1..Len(result.p2) :
              /\ result.g2[i].skill.skill_code = result.p2[i].skill.skill_code
              /\ result.g2[i].stage2Delta = result.p2[i].stage2Delta

\* C27 witness: a catalog of two skills of which one passes stage 1, with
\* an unrecognized prerequisite tag in the catalog, and a survivor with a
\* negative delta in both copies.
C27_Witness ==
    /\ pc = "done" /\ via = "both"
    /\ Len(skills) = 2
    /\ skills[1].prerequisite_proficiency = "Apprenticeship"
    /\ Len(result.p1) = 1
    /\ Len(result.p2) = 1 /\ Len(result.g2) = 1
    /\ result.p2[1].stage2Delta < 0
    /\ result.g2[1].stage2Delta < 0

(***************************************************************************)
(* Properties of the Gemini adapter (specification SpecAI).                *)
(***************************************************************************)
Shortlist == shortlistWithDeltas(user, skills).shortlistSkills

ResultCodes == {result[i].skill_code : i \in 1..Len(result)}

\* A returned item is an item of the model's response (its name aside, which
\* the adapter reads from the shortlist).
FromModel(r) ==
    \E j \in 1..Len(llm.recs) :
        /\ r.skill_code = llm.recs[j].skill_code
        /\ r.score = llm.recs[j].score
        /\ r.reasons = llm.recs[j].reasons
        /\ r.badges = llm.recs[j].badges
        /\ r.warnings = llm.recs[j].warnings

\* The failure modes of the call: an empty shortlist (no call), a client
\* error, an empty text, a text that is no JSON, a schema-validation failure,
\* no item left after filtering to the shortlist codes.
FailureMode ==
    \/ Len(Shortlist) = 0
    \/ llm.kind \in {"not_called", "throw", "empty_text", "not_json", "json_other"}
    \/ ~ LLMRecommendationResponseSchema(llm)
    \/ \A j \in 1..Len(llm.recs) : llm.recs[j].skill_code \notin allowed(Shortlist)

\* C2: when the language-model client throws on every call (or is never
\* called, the shortlist being empty), the adapter returns what
\* runRecommendationPipeline returns for the same profile and full catalog.
C2_ThrowEqualsPipeline ==
    (pc = "done" /\ llm.kind \in {"not_called", "throw"}) =>
        result = runRecommendationPipeline(user, skills)

\* C2 witness: the client threw, and the deterministic result names a skill
\* that is not on the shortlist, so the catalog is the full one.
C2_Witness ==
    /\ pc = "done" /\ llm.kind = "throw"
    /\ Len(result) >= 1
    /\ ~ (ResultCodes \subseteq allowed(Shortlist))

\* C3: the adapter returns either exactly the deterministic result for the
\* original catalog, or only items of the validated model response; every
\* failure mode yields the former, and no result mixes the two.
C3_FallbackOrModelOnly ==
    pc = "done" =>
        /\ via # "model" => result = runRecommendationPipeline(user, skills)
        /\ via = "model" =>
              /\ LLMRecommendationResponseSchema(llm)
              /\ Len(result) >= 1
              /\ \A i \in 1..Len(result) : FromModel(result[i])
        /\ FailureMode => via # "model"
        /\ ~ FailureMode => via = "model"

\* C3 witness: a schema-valid response all of whose codes are outside the
\* shortlist, answered by the deterministic result for the full catalog.
C3_Witness ==
    /\ pc = "done" /\ via = "no_valid_items"
    /\ LLMRecommendationResponseSchema(llm)
    /\ Len(result) >= 1
    /\ ~ (ResultCodes \subseteq allowed(Shortlist))

\* C4: every recommendation of a model-sourced result has a skill_code of
\* the shortlist built for the invocation; the schema-valid items whose code
\* is outside the shortlist are dropped, the others are kept in order.
C4_ModelCodesOnShortlist ==
    (pc = "done" /\ via = "model") =>
        /\ ResultCodes \subseteq allowed(Shortlist)
        /\ Len(result) = Cardinality({j \in 1..Len(llm.recs) :
                                llm.recs[j].skill_code \in allowed(Shortlist)})

\* C4 witness: a model-sourced result whose response held a schema-valid
\* item with a code outside the shortlist.
C4_Witness ==
    /\ pc = "done" /\ via = "model"
    /\ \E j \in 1..Len(llm.recs) :
          /\ itemSchemaOk(llm.recs[j])
          /\ llm.recs[j].skill_code \notin allowed(Shortlist)
          /\ llm.recs[j].skill_code \notin ResultCodes

CallFailed ==
    \/ llm.kind \in {"throw", "empty_text", "not_json", "json_other"}
    \/ llm.kind = "json" /\ ~ LLMRecommendationResponseSchema(llm)

\* C14: within one invocation the language-model service is called at most
\* once; once a call has failed the adapter has returned the deterministic
\* result, and no second call is made.
C14_AtMostOneCall ==
    /\ calls <= 1
    /\ CallFailed =>
          /\ pc = "done"
          /\ calls = 1
          /\ via = "catch"
          /\ result = runRecommendationPipeline(user, skills)

\* C14 witness: the one call failed on a response that is no JSON, and the
\* adapter returned deterministic recommendations.
C14_Witness ==
    /\ pc = "done" /\ calls = 1
    /\ llm.kind = "not_json"
    /\ via = "catch"
    /\ Len(result) >= 1

\* C15: the adapter eventually returns, whatever the language-model service
\* does, a call that never completes included: while it has not returned
\* and the call it waits on will never settle, it has a step left to take
\* (a timeout that returns the deterministic result).
C15_ReturnsDespiteHungCall ==
    llm.kind = "never_settles" => (pc = "done" \/ ENABLED <<NextAIHang>>_vars)

\* The bounds of the response schema on one item, spelled out.
WithinItemBounds(r) ==
    /\ r.score_frac = 0 /\ r.score >= 0 /\ r.score <= 100
    /\ Len(r.reasons) \in 3..6
    /\ Len(r.badges) \in 0..5
    /\ Len(r.warnings) \in 0..5

\* C16: every model-sourced result has between 1 and 5 recommendations,
\* each an item of the response with an integer score in [0,100], 3 to 6
\* reasons, at most 5 badges and at most 5 warnings; and the response it
\* was taken from has 1 to 5 items, every one of them within these bounds,
\* so that a response outside them is never returned.
C16_ModelResultWithinSchemaBounds ==
    (pc = "done" /\ via = "model") =>
        /\ Len(result) \in 1..5
        /\ \A i \in 1..Len(result) :
              /\ result[i].score \in 0..100
              /\ Len(result[i].reasons) \in 3..6
              /\ Len(result[i].badges) \in 0..5
              /\ Len(result[i].warnings) \in 0..5
              /\ \E j \in 1..Len(llm.recs) :
                    /\ llm.recs[j].score = result[i].score
                    /\ llm.recs[j].score_frac = 0
                    /\ llm.recs[j].skill_code = result[i].skill_code
        /\ Len(llm.recs) \in 1..5
        /\ \A j \in 1..Len(llm.recs) : WithinItemBounds(llm.recs[j])

\* C16 witness: a model-sourced result at the upper bounds, five
\* recommendations from a response of five items.
C16_Witness ==
    /\ pc = "done" /\ via = "model"
    /\ Len(llm.recs) = 5
    /\ Len(result) = 5

(***************************************************************************)
(* Properties of the provider lookup (SpecProviders, SpecNI).              *)
(***************************************************************************)
HiddenKeys == {"phone", "whatsapp", "address", "capabilities"}

LockedKeys ==
    {"provider_id", "name", "provider_type", "state", "city", "area",
     "mode_supported", "physical_delivery_percent", "course_fee_min_ngn",
     "course_fee_max_ngn", "duration_weeks", "rank"}

Answered == pc = "done" /\ status = 200

\* The rows of the catalog that have a provider and clear the threshold.
ClearingRows ==
    {i \in 1..Len(rows) :
        /\ rows[i].providers # << >>
        /\ physicalPct(rows[i], rows[i].providers[1]) >= MinPhysicalPct}

RowRank(i) == localityRank(rows[i].providers[1], body)

\* C5: when the session is not unlocked, no returned provider record has a
\* phone, whatsapp, address or capabilities key; its keys are exactly those
\* of the locked projection.
C5_LockedKeysAbsent ==
    (Answered /\ ~isUnlocked) =>
        \A i \in 1..Len(providers) :
            /\ DOMAIN providers[i] \cap HiddenKeys = {}
            /\ DOMAIN providers[i] = LockedKeys

\* C5 witness: a locked answer that lists a provider whose row holds a
\* phone number and an address.
C5_Witness ==
    /\ Answered /\ ~isUnlocked
    /\ \E i \in 1..Len(providers) : \E k \in ClearingRows :
          /\ rows[k].providers[1].id = providers[i].provider_id
          /\ rows[k].providers[1].phone # << >>
          /\ rows[k].providers[1].address # << >>

\* C6: for two catalogs that differ only in phone, whatsapp, address and
\* capability flags, and the same request, the locked outputs are identical.
C6_LockedOutputIgnoresHidden ==
    (Answered /\ ~isUnlocked) => providers = providersAlt

\* C6 witness: a locked answer of two or more providers for two catalogs
\* whose hidden fields differ in a returned provider.
C6_Witness ==
    /\ Answered /\ ~isUnlocked
    /\ Len(providers) >= 2
    /\ \E k \in ClearingRows :
          /\ rows[k].providers[1].id = providers[1].provider_id
          /\ rows[k].providers[1].phone # rowsAlt[k].providers[1].phone
          /\ rows[k].providers[1].has_internet # rowsAlt[k].providers[1].has_internet

\* C7: the handler returns at most 10 providers, in non-decreasing order of
\* rank, and answers 200 with an empty list when both reads succeed and no
\* row has an effective physical-delivery percentage of at least 10.
C7_AtMostTenSortedByRank ==
    /\ Answered =>
          /\ Len(providers) <= MaxProviders
          /\ \A i \in 1..Len(providers) - 1 :
                providers[i].rank <= providers[i + 1].rank
    /\ (pc = "done" /\ dbOutcome = "ok" /\ ClearingRows = {}) =>
          (status = 200 /\ providers = << >>)

\* C7 witness: more than 10 rows clear the threshold, 10 providers of
\* different ranks are returned.
C7_Witness ==
    /\ Answered
    /\ Cardinality(ClearingRows) > MaxProviders
    /\ Len(providers) = MaxProviders
    /\ providers[1].rank < providers[MaxProviders].rank

\* C8: every provider identity appears at most once in the output, and the
\* entry of a provider carries the lowest rank among the rows of that
\* provider that clear the threshold.
C8_OneEntryPerProviderBestRank ==
    Answered =>
        /\ \A i, j \in 1..Len(providers) :
              providers[i].provider_id = providers[j].provider_id => i = j
        /\ \A i \in 1..Len(providers) :
              LET own == {k \in ClearingRows :
                            rows[k].providers[1].id = providers[i].provider_id}
              IN  /\ own # {}
                  /\ \A k \in own : providers[i].rank <= RowRank(k)
                  /\ \E k \in own : providers[i].rank = RowRank(k)

\* C8 witness: two rows of one provider, the first with rank 2 and a later
\* one with rank 1, and one entry for that provider, with rank 1.
C8_Witness ==
    /\ Answered
    /\ \E k1, k2 \in ClearingRows :
          /\ k1 < k2
          /\ rows[k1].providers[1].id = rows[k2].providers[1].id
          /\ RowRank(k1) = 2 /\ RowRank(k2) = 1
          /\ Cardinality({i \in 1..Len(providers) :
                providers[i].provider_id = rows[k1].providers[1].id}) = 1
          /\ \E i \in 1..Len(providers) :
                /\ providers[i].provider_id = rows[k1].providers[1].id
                /\ providers[i].rank = 1

\* The identities of the providers with a row that clears the threshold,
\* and the lowest rank among the clearing rows of one of them.
ClearingProviders == {rows[k].providers[1].id : k \in ClearingRows}

BestRank(pid) ==
    LET own == {k \in ClearingRows : rows[k].providers[1].id = pid}
    IN  CHOOSE r \in {RowRank(k) : k \in own} : \A k \in own : r <= RowRank(k)

\* C17: the output is what filtering at >= 10, deduplicating by provider
\* with the lowest rank kept, sorting by rank and truncating to 10 gives:
\* one entry per clearing provider at its lowest rank, in ascending order
\* of rank, the 10 best-ranked providers when there are more, and so
\* exactly 10 distinct providers whenever 10 or more clear the threshold.
C17_FilterDedupeSortTruncate ==
    Answered =>
        /\ Len(providers) = Min(MaxProviders, Cardinality(ClearingProviders))
        /\ \A i, j \in 1..Len(providers) :
              providers[i].provider_id = providers[j].provider_id => i = j
        /\ \A i \in 1..Len(providers) :
              /\ providers[i].provider_id \in ClearingProviders
              /\ providers[i].rank = BestRank(providers[i].provider_id)
        /\ \A i \in 1..Len(providers) - 1 :
              providers[i].rank <= providers[i + 1].rank
        /\ \A pid \in ClearingProviders :
              (\A i \in 1..Len(providers) : providers[i].provider_id # pid) =>
                  \A i \in 1..Len(providers) : providers[i].rank <= BestRank(pid)

\* The locality tier of a returned entry, read from its own state, city and
\* area against the request: the area matches when the request names one
\* and the provider's is the same.
SameState(e) == e.state = body.state
SameCity(e) == e.city = body.city
SameArea(e) == body.area # "" /\ e.area # << >> /\ e.area[1] = body.area

\* C18: a returned provider has rank 1 when its area, city and state all
\* equal the user's, 2 when city and state match (and the area does not),
\* 3 when only the state matches, and 99 otherwise; a provider outside the
\* user's state is returned like any other when it clears the threshold
\* and no more than 10 rows do.
C18_LocalityRankTiers ==
    Answered =>
        /\ \A i \in 1..Len(providers) :
              LET e == providers[i]
              IN  /\ (SameState(e) /\ SameCity(e) /\ SameArea(e)) => e.rank = 1
                  /\ (SameState(e) /\ SameCity(e) /\ ~SameArea(e)) => e.rank = 2
                  /\ (SameState(e) /\ ~SameCity(e)) => e.rank = 3
                  /\ ~SameState(e) => e.rank = 99
        /\ Cardinality(ClearingRows) <= MaxProviders =>
              \A k \in ClearingRows :
                  rows[k].providers[1].state # body.state =>
                      \E i \in 1..Len(providers) :
                          providers[i].provider_id = rows[k].providers[1].id

\* C18 witness: an answer listing a provider of the user's area at rank 1
\* and a provider of another state, in a city of the same name, at rank 99.
C18_Witness ==
    /\ Answered
    /\ \E i, j \in 1..Len(providers) :
          /\ providers[i].rank = 1 /\ SameArea(providers[i])
          /\ providers[j].rank = 99 /\ SameCity(providers[j])
          /\ ~SameState(providers[j])

\* The effective physical-delivery percentage of catalog row k: the row's
\* own value when it has one (0 included), else its provider's, else 0.
EffectivePct(k) ==
    LET own == rows[k].physical_delivery_percent
        dflt == rows[k].providers[1].physical_delivery_percent
    IN  IF Len(own) = 1 THEN own[1] ELSE IF Len(dflt) = 1 THEN dflt[1] ELSE 0

\* C19: every returned provider shows a physical-delivery percentage of at
\* least 10, and it is the effective percentage of the row of that provider
\* the entry was built from.
C19_NoProviderBelowTenPercent ==
    Answered =>
        \A i \in 1..Len(providers) :
            /\ providers[i].physical_delivery_percent >= 10
            /\ \E k \in 1..Len(rows) :
                  /\ rows[k].providers # << >>
                  /\ rows[k].providers[1].id = providers[i].provider_id
                  /\ rows[k].course_fee_max_ngn = providers[i].course_fee_max_ngn
                  /\ EffectivePct(k) = providers[i].physical_delivery_percent

\* C19 witness: the only row of a provider has a value of 0 of its own
\* while the provider's default is 50; another provider is returned, this
\* one is not.
C19_Witness ==
    /\ Answered
    /\ Len(providers) >= 1
    /\ \E k \in 1..Len(rows) :
          /\ rows[k].providers # << >>
          /\ rows[k].physical_delivery_percent = <<0>>
          /\ rows[k].providers[1].physical_delivery_percent = <<50>>
          /\ \A i \in 1..Len(providers) :
                providers[i].provider_id # rows[k].providers[1].id

(***************************************************************************)
(* Properties of the unlock operations.                                    *)
(***************************************************************************)
PaymentRoutes == {"verify", "webhook", "callback"}

CouponRoutes == {"verify-coupon", "coupon-unlock"}

\* Session s goes from not unlocked to unlocked in this step.
BecomesUnlocked(s) == ~sessions[s].unlocked /\ sessions'[s].unlocked

\* C28: a provider lookup for a session that a payment or a coupon has
\* unlocked is answered with the unlocked projection.
C28_UnlockedSessionGetsFullProviders ==
    \A s \in SessionIds :
        (/\ lastCall.route = "providers" /\ lastCall.session_id = s
         /\ sessions[s].unlocked
         /\ sessions[s].unlocked_via \in {"payment", "coupon"}) =>
            /\ isUnlocked
            /\ \A i \in 1..Len(providers) : "phone" \in DOMAIN providers[i]

\* C29: a payment route turns a session's unlocked flag to true only when
\* the gateway verified the transaction as successful, in NGN, for an
\* amount that is 1999 to the nearest naira.
C29_PaymentUnlockOnlyFor1999NGN ==
    [][\A s \in SessionIds :
          (BecomesUnlocked(s) /\ lastCall'.route \in PaymentRoutes) =>
              /\ lastCall'.verify.httpOk
              /\ lastCall'.verify.status = "successful"
              /\ lastCall'.verify.currency = "NGN"
              /\ lastCall'.verify.amount # << >>
              /\ (lastCall'.verify.amount[1] + 5) \div 10 = 1999]_vars

\* C30: a coupon handler turns a session's unlocked flag to true only when
\* a coupon code was supplied and redeem_coupon returned ok for it.
C30_CouponUnlockOnlyAfterRedeemOk ==
    [][\A s \in SessionIds :
          (BecomesUnlocked(s) /\ lastCall'.route \in CouponRoutes) =>
              /\ lastCall'.coupon_supplied
              /\ lastCall'.redeem = "ok"]_vars

=============================================================================
